---- MODULE Spec2Model ----
(***************************************************************************)
(* State-machine model of relmvim's screen model: the TextBuf cell buffer  *)
(* (src/src/vimview/textbuf.rs) and the redraw-event reducer               *)
(* AppModel::update (src/src/app.rs).                                      *)
(*                                                                         *)
(* Conventions.  An Option<T> is a sequence of length <= 1: None is <<>>,  *)
(* Some(x) is <<x>>.  A String is modelled by a TLA+ string holding one    *)
(* character per UTF-8 byte, so that Len(text) is Rust's text.len().  Row  *)
(* and column numbers are 0-based as in the source; sequences are 1-based, *)
(* so column c of a line is line[c + 1].                                   *)
(***************************************************************************)
EXTENDS Integers, Sequences, FiniteSets, TLC

VARIABLES
    tb,            \* a _TextBuf on its own: [rows, cols, cells]
    hldefs,        \* the shared HighlightDefinitions table
    op,            \* the last TextBuf call: [name, a, b, runs]
    pre,           \* tb as it was before the last TextBuf call
    scrolled,      \* trace of an up(n) directly followed by down(n)
    nops,          \* number of TextBuf calls made so far
    vgrids,        \* AppModel.vgrids: grid id -> VimGrid
    messages,      \* AppModel.messages
    cursor_grid,   \* AppModel.cursor_grid
    cursor_coord,  \* AppModel.cursor_coord: [col, row]
    cursor_cell,   \* the cell snapshot held by the VimCursor
    panicked,      \* the reducer has aborted in a panic
    ev,            \* the last message given to AppModel::update
    trace,         \* the redraw events applied so far (end-to-end runs)
    before,        \* messages as they were before the last event
    nev,           \* number of events applied so far
    cursor_coord_changed,  \* AppModel.cursor_coord_changed
    aggregator,    \* EVENT_AGGREGATOR: [parent_senders, unclaimed_receivers,
                   \* poisoned]
    channels,      \* payload type -> the queue of that type's channel
    buslog,        \* the calls made on the event bus and their outcomes
    running,       \* RUNNING_TRACKER.is_running()
    app_queue,     \* the AppMessage channel from the forwarding task to update
    forwarder,     \* the task VimMessager::init spawns: position and receiver
    reducer,       \* the main loop: waiting for a message, viewing, stopped
    shown,         \* what the last run of AppWidgets::pre_view read
    logged,        \* levels of the log records the last update wrote
    cursor,        \* the cursor component's model: [grid, coord, mode]
    cursor_modes,  \* AppModel.cursor_modes
    cursor_mode,   \* AppModel.cursor_mode
    mode,          \* AppModel.mode
    threads,       \* threads calling the event bus: [pc, type] of each
    locks          \* the thread holding the write lock of each registry, or 0

bufVars == <<tb, op, pre, scrolled, nops>>

modeVars == <<cursor_modes, cursor_mode, mode>>

appVars == <<vgrids, messages, cursor_grid, cursor_coord, cursor_cell,
             panicked, ev, trace, before, nev, cursor_coord_changed,
             logged, cursor, modeVars>>

lockVars == <<threads, locks>>

busVars == <<aggregator, channels, buslog, lockVars>>

pipeVars == <<running, app_queue, forwarder, reducer, shown>>

vars == <<tb, hldefs, op, pre, scrolled, nops, vgrids, messages, cursor_grid,
          cursor_coord, cursor_cell, panicked, ev, trace, before, nev,
          cursor_coord_changed, aggregator, channels, buslog, running,
          app_queue, forwarder, reducer, shown, logged, cursor,
          cursor_modes, cursor_mode, mode, threads, locks>>

----------------------------------------------------------------------------
(* Bounds of the model.                                                    *)

MaxRows == 2
MaxCols == 2
MaxOps == 3
MaxEvents == 3

----------------------------------------------------------------------------
(* Option<T>.                                                              *)

None == <<>>

Some(x) == <<x>>

Max(a, b) == IF a >= b THEN a ELSE b

Min(a, b) == IF a <= b THEN a ELSE b

----------------------------------------------------------------------------
(* Highlight table.                                                        *)

DEFAULT == 0

PlainStyle ==
    [italic |-> FALSE, bold |-> FALSE, strikethrough |-> FALSE,
     underline |-> FALSE, undercurl |-> FALSE,
     foreground |-> None, background |-> None, special |-> None]

NoColors == [foreground |-> None, background |-> None, special |-> None]

\* hldefs.get(id): the style defined for id, if any.
HlGet(hl, id) == IF id \in DOMAIN hl.styles THEN Some(hl.styles[id]) ELSE None

\* hldefs.defaults(): the default colors.
HlDefaults(hl) == hl.defaults

\* The table of a fresh session: only the default style, no colors.
FreshHldefs == [styles |-> (DEFAULT :> PlainStyle), defaults |-> NoColors]

\* A table after DefaultColorsSet and one HighlightAttributesDefine.
ThemedHldefs ==
    [styles |-> (DEFAULT :> PlainStyle) @@
                (1 :> [PlainStyle EXCEPT !.bold = TRUE,
                                         !.background = Some("blue")]),
     defaults |-> [foreground |-> Some("white"), background |-> Some("black"),
                   special |-> None]]

----------------------------------------------------------------------------
(* TextCell.                                                               *)

\* TextCell::default()
DefaultCell ==
    [text |-> " ", hldef |-> None, double_width |-> FALSE, attrs |-> <<>>,
     start_index |-> 0, end_index |-> 0]

Attr(kind, value, s, e) ==
    [kind |-> kind, value |-> value, start_index |-> s, end_index |-> e]

\* The attribute list TextCell::reset_attrs builds for a cell.
CellAttrs(cell, hl) ==
    IF cell.end_index = cell.start_index THEN <<>>
    ELSE
      LET s == cell.start_index
          e == cell.end_index
          default_hldef == HlGet(hl, DEFAULT)[1]
          default_colors == HlDefaults(hl)
          style == IF cell.hldef # None THEN HlGet(hl, cell.hldef[1]) ELSE None
          hldef == IF style # None THEN style[1] ELSE default_hldef
          background == IF style # None THEN style[1].background ELSE None
          fg == IF hldef.foreground # None THEN hldef.foreground
                ELSE default_colors.foreground
          sp == IF hldef.special # None THEN hldef.special
                ELSE default_colors.special
          flag(b, kind) == IF b THEN <<Attr(kind, None, s, e)>> ELSE <<>>
          color(c, kind) == IF c # None THEN <<Attr(kind, c, s, e)>> ELSE <<>>
      IN  flag(hldef.italic, "style_italic")
          \o flag(hldef.bold, "weight_semibold")
          \o flag(hldef.strikethrough, "strikethrough")
          \o flag(hldef.underline, "underline_single")
          \o flag(hldef.undercurl, "underline_error")
          \o color(fg, "foreground")
          \o color(background, "background")
          \o color(sp, "underline_color")

\* TextCell::reset_attrs
ResetAttrs(cell, hl) == [cell EXCEPT !.attrs = CellAttrs(cell, hl)]

----------------------------------------------------------------------------
(* TextLine: [boxed, cache].  The shaping cache is None or Some(the cells   *)
(* the layout was shaped from).                                            *)

\* TextLine::new(cols)
TextLineNew(cols) ==
    [boxed |-> [i \in 1..cols |->
                  [DefaultCell EXCEPT !.start_index = i - 1, !.end_index = i]],
     cache |-> None]

\* impl From<Box<[TextCell]>> for TextLine
TextLineFrom(boxed) == [boxed |-> boxed, cache |-> None]

\* TextBufExt::make(rows, cols)
Make(rows, cols) == [r \in 1..rows |-> TextLineNew(cols)]

\* _TextBuf::new(rows, cols)
TextBufNew(rows, cols) == [rows |-> rows, cols |-> cols, cells |-> Make(rows, cols)]

----------------------------------------------------------------------------
(* _TextBuf operations.  A buffer is [rows, cols, cells]; a run is a        *)
(* GridLineCell [text, hldef, repeat, double_width].                       *)

\* Variant of ExpandRuns that expands the first run only.
ExpandRunsFirstOnly(runs, start_index, hl) ==
    IF runs = <<>> THEN <<>>
    ELSE
      LET run == Head(runs)
          n == IF run.repeat = None THEN 1 ELSE run.repeat[1]
          len == Len(run.text)
      IN  [k \in 1..n |->
              ResetAttrs([text |-> run.text, hldef |-> run.hldef,
                          double_width |-> run.double_width, attrs |-> <<>>,
                          start_index |-> start_index + (k - 1) * len,
                          end_index |-> start_index + k * len], hl)]

\* The cells set_cells expands the runs into (the loop over cells/repeat).
RECURSIVE ExpandRuns(_, _, _)
ExpandRuns(runs, start_index, hl) ==
    IF runs = <<>> THEN <<>>
    ELSE
      LET run == Head(runs)
          n == IF run.repeat = None THEN 1 ELSE run.repeat[1]
          len == Len(run.text)
          cell(k) ==
              ResetAttrs([text |-> run.text, hldef |-> run.hldef,
                          double_width |-> run.double_width, attrs |-> <<>>,
                          start_index |-> start_index + (k - 1) * len,
                          end_index |-> start_index + k * len], hl)
      IN  [k \in 1..n |-> cell(k)]
          \o ExpandRuns(Tail(runs), start_index + n * len, hl)

\* Variant of FoldOffsets that leaves the offsets as the swap left them.
FoldOffsetsSkipped(line, i, start_index, hl) == line

\* The closing fold of set_cells: offsets recomputed from 0 over the line.
RECURSIVE FoldOffsets(_, _, _, _)
FoldOffsets(line, i, start_index, hl) ==
    IF i > Len(line) THEN line
    ELSE
      LET cell == ResetAttrs([line[i] EXCEPT
                                !.start_index = start_index,
                                !.end_index = start_index + Len(line[i].text)],
                             hl)
      IN  FoldOffsets([line EXCEPT ![i] = cell], i + 1, cell.end_index, hl)

\* Number of cells the runs expand to.
RECURSIVE ExpandedLen(_)
ExpandedLen(runs) ==
    IF runs = <<>> THEN 0
    ELSE (IF Head(runs).repeat = None THEN 1 ELSE Head(runs).repeat[1])
         + ExpandedLen(Tail(runs))

\* set_cells aborts on line[col..col_to] when the range leaves the line.
SetCellsPanics(buf, row, col, runs) ==
    /\ row < buf.rows
    /\ col + ExpandedLen(runs) > Len(buf.cells[row + 1].boxed)

\* Variant of SetCells that writes a row past the end into the last row.
SetCellsClampsRow(buf, row, col, runs, hl) ==
    LET r == Min(row, buf.rows - 1)
        line == buf.cells[r + 1].boxed
        start_index == IF col < Len(line) THEN line[col + 1].start_index ELSE 0
        expands == ExpandRuns(runs, start_index, hl)
        swapped == SubSeq(line, 1, col) \o expands
                   \o SubSeq(line, col + Len(expands) + 1, Len(line))
    IN  [buf EXCEPT !.cells[r + 1] =
            [boxed |-> FoldOffsets(swapped, 1, 0, hl), cache |-> None]]

\* Variant of SetCells that writes the cells one column too far right.
SetCellsOffByOne(buf, row, col, runs, hl) ==
    IF buf.rows <= row THEN buf
    ELSE
      LET line == buf.cells[row + 1].boxed
          expands == ExpandRuns(runs, 0, hl)
          swapped == SubSeq(line, 1, col + 1) \o expands
                     \o SubSeq(line, col + Len(expands) + 2, Len(line))
      IN  [buf EXCEPT !.cells[row + 1] =
              [boxed |-> FoldOffsets(SubSeq(swapped, 1, Len(line)), 1, 0, hl),
               cache |-> None]]

\* _TextBuf::set_cells(row, col, cells)
SetCells(buf, row, col, runs, hl) ==
    IF buf.rows <= row THEN buf
    ELSE
      LET line == buf.cells[row + 1].boxed
          start_index == IF col < Len(line) THEN line[col + 1].start_index ELSE 0
          expands == ExpandRuns(runs, start_index, hl)
          col_to == col + Len(expands)
          swapped == SubSeq(line, 1, col) \o expands
                     \o SubSeq(line, col_to + 1, Len(line))
      IN  [buf EXCEPT !.cells[row + 1] =
              [boxed |-> FoldOffsets(swapped, 1, 0, hl), cache |-> None]]

\* _TextBuf::up(rows): drop the head rows, leave the tail blank.
Up(buf, n) ==
    [buf EXCEPT !.cells =
        [i \in 1..buf.rows |->
            IF i <= buf.rows - n THEN buf.cells[i + n]
            ELSE TextLineNew(buf.cols)]]

\* Variant of Down that shifts the rows but does not blank the head.
DownKeepsHead(buf, n) ==
    [buf EXCEPT !.cells =
        [i \in 1..buf.rows |->
            IF i > n THEN buf.cells[i - n] ELSE buf.cells[i]]]

\* _TextBuf::down(rows): drop the tail rows, leave the head blank.
Down(buf, n) ==
    [buf EXCEPT !.cells =
        [i \in 1..buf.rows |->
            IF i > n THEN buf.cells[i - n]
            ELSE TextLineNew(buf.cols)]]

\* Variant of Clear that leaves a single blank cell.
ClearToOneCell(buf) == [buf EXCEPT !.cells = Make(1, 1)]

\* _TextBuf::clear
Clear(buf) == [buf EXCEPT !.cells = Make(buf.rows, buf.cols)]

\* _TextBuf::reset_cache: every cell's attributes recomputed.
ResetCache(buf, hl) ==
    [buf EXCEPT !.cells =
        [r \in 1..buf.rows |->
            [buf.cells[r] EXCEPT !.boxed =
                [c \in 1..Len(buf.cells[r].boxed) |->
                    ResetAttrs(buf.cells[r].boxed[c], hl)]]]]

\* Variant of ResizeLine that pads with untouched default cells.
ResizeLinePlainPad(tl, cols) ==
    TextLineFrom([c \in 1..cols |-> IF c <= Len(tl) THEN tl[c] ELSE DefaultCell])

\* The closure resize maps over every line: truncate or pad to cols.
ResizeLine(tl, cols) ==
    LET old_cols == Len(tl)
        start_index == IF old_cols > 0 THEN tl[old_cols].start_index ELSE 0
    IN  TextLineFrom(
          [c \in 1..cols |->
              IF c <= old_cols THEN tl[c]
              ELSE [DefaultCell EXCEPT
                      !.start_index = start_index + (c - old_cols - 1),
                      !.end_index = start_index + (c - old_cols - 1) + 1]])

\* Variant of Resize that reallocates a blank buffer of the new size.
ResizeKeepsNothing(buf, rows, cols) ==
    IF buf.rows = rows /\ buf.cols = cols THEN buf ELSE TextBufNew(rows, cols)

\* Variant of Resize without the early return on unchanged dimensions.
ResizeNoEarlyReturn(buf, rows, cols) ==
    [rows |-> rows, cols |-> cols,
     cells |-> [r \in 1..rows |->
                  ResizeLine(IF r <= Min(rows, buf.rows) THEN buf.cells[r].boxed
                             ELSE TextLineNew(0).boxed, cols)]]

\* TextBufExt::resize for _TextBuf
Resize(buf, rows, cols) ==
    IF buf.rows = rows /\ buf.cols = cols THEN buf
    ELSE
      LET nrows == Min(rows, buf.rows)
          cells == [r \in 1..rows |->
                      IF r <= nrows THEN buf.cells[r].boxed
                      ELSE TextLineNew(0).boxed]
      IN  [rows |-> rows, cols |-> cols,
           cells |-> [r \in 1..rows |-> ResizeLine(cells[r], cols)]]

\* TextLine::set_cache, called by the renderer after shaping the line.
SetCache(buf, row) ==
    [buf EXCEPT !.cells[row + 1].cache = Some(buf.cells[row + 1].boxed)]

----------------------------------------------------------------------------
(* Inputs of the TextBuf calls.                                            *)

Run(text, hldef, repeat, double_width) ==
    [text |-> text, hldef |-> hldef, repeat |-> repeat,
     double_width |-> double_width]

\* Run lists given to set_cells: a two-byte grapheme with a defined
\* highlight id; a repeated one-byte cell; a double-width cell with an
\* undefined highlight id followed by the empty cell of its right half; an
\* empty cell followed by a one-byte cell.
RunLists ==
    { <<Run("zz", Some(1), None, FALSE)>>,
      <<Run("a", None, Some(2), FALSE)>>,
      <<Run("www", Some(2), None, TRUE), Run("", None, None, FALSE)>>,
      <<Run("", None, None, FALSE), Run("a", Some(1), Some(1), FALSE)>> }

NoRuns == <<>>

OpRec(name, a, b, runs) == [name |-> name, a |-> a, b |-> b, runs |-> runs]

NoScroll == [stage |-> "none", n |-> 0, base |-> <<>>]

----------------------------------------------------------------------------
(* EventAggregator: one unbounded channel per payload type, created by the *)
(* first send or the first register_event of that type.  A panic inside    *)
(* register_event happens while the write guards of both maps are alive,   *)
(* so it poisons the locks and every later lock().unwrap() panics too.     *)

MaxBusOps == 4

PayloadTypes == {"RedrawEvent", "UiCommand"}

\* EventAggregator::default()
AggregatorDefault ==
    [parent_senders |-> {}, unclaimed_receivers |-> {}, poisoned |-> FALSE]

\* unbounded_channel(): an empty queue whose receiver is alive.
UnboundedChannel == [queue |-> <<>>, closed |-> FALSE]

\* A value in flight: the payload with the TypeId it was sent under.
Payload(type, value) == [type |-> type, value |-> value]

\* EventAggregator::get_sender::<T>: the sender of T's channel, creating the
\* channel and parking its receiver when the entry is vacant.
GetSender(agg, type) ==
    IF type \in agg.parent_senders THEN agg
    ELSE [agg EXCEPT !.parent_senders = @ \cup {type},
                     !.unclaimed_receivers = @ \cup {type}]

\* Variant of Sent that pushes the event into the channel of every type.
SentToEveryChannel(agg, chans, type, value) ==
    IF agg.poisoned THEN [aggregator |-> agg, channels |-> chans,
                          outcome |-> "panic"]
    ELSE [aggregator |-> GetSender(agg, type),
          channels |-> [t \in DOMAIN chans |->
                          [chans[t] EXCEPT
                              !.queue = Append(@, Payload(type, value))]],
          outcome |-> "sent"]

\* EventAggregator::send::<T>(event): [aggregator, channels, outcome].
Sent(agg, chans, type, value) ==
    IF agg.poisoned
    THEN [aggregator |-> agg, channels |-> chans, outcome |-> "panic"]
    ELSE IF chans[type].closed
    THEN [aggregator |-> GetSender(agg, type), channels |-> chans,
          outcome |-> "panic"]
    ELSE [aggregator |-> GetSender(agg, type),
          channels |-> [chans EXCEPT
                          ![type].queue = Append(@, Payload(type, value))],
          outcome |-> "sent"]

\* Variant of RegisterEvent that replaces an occupied sender entry.
RegisterEventOverwrites(agg, type) ==
    IF agg.poisoned THEN [aggregator |-> agg, outcome |-> "panic"]
    ELSE IF type \in agg.unclaimed_receivers
    THEN [aggregator |-> [agg EXCEPT !.unclaimed_receivers = @ \ {type}],
          outcome |-> "receiver"]
    ELSE [aggregator |-> [agg EXCEPT !.parent_senders = @ \cup {type}],
          outcome |-> "receiver"]

\* EventAggregator::register_event::<T>: [aggregator, outcome], the outcome
\* being the receiver of T's channel or a panic.
RegisterEvent(agg, type) ==
    IF agg.poisoned THEN [aggregator |-> agg, outcome |-> "panic"]
    ELSE IF type \in agg.unclaimed_receivers
    THEN [aggregator |-> [agg EXCEPT !.unclaimed_receivers = @ \ {type}],
          outcome |-> "receiver"]
    ELSE IF type \in agg.parent_senders
    THEN [aggregator |-> [agg EXCEPT !.poisoned = TRUE], outcome |-> "panic"]
    ELSE [aggregator |-> [agg EXCEPT !.parent_senders = @ \cup {type}],
          outcome |-> "receiver"]

\* The calls made so far: values sent and received per type, receivers
\* handed out per type, and the last call with its outcome.
BusCall(name, type, outcome, had, clean) ==
    [name |-> name, type |-> type, outcome |-> outcome, had |-> had,
     clean |-> clean]

NoBusLog ==
    [sent |-> [t \in PayloadTypes |-> <<>>],
     received |-> [t \in PayloadTypes |-> <<>>],
     handed |-> [t \in PayloadTypes |-> 0],
     calls |-> 0,
     op |-> BusCall("none", "none", "none", 0, TRUE)]

\* The threads that call the event bus.
Threads == {1, 2}

\* No call in progress and both registries unlocked.
LocksFresh ==
    /\ threads = [t \in Threads |-> [pc |-> "idle", type |-> "none"]]
    /\ locks = [parent_senders |-> 0, unclaimed_receivers |-> 0]

BusFresh ==
    /\ aggregator = AggregatorDefault
    /\ channels = [t \in PayloadTypes |-> UnboundedChannel]
    /\ buslog = NoBusLog
    /\ LocksFresh

----------------------------------------------------------------------------
(* The session around the reducer: the running flag, the AppMessage channel *)
(* and the forwarding task.                                                 *)

\* AppMessage::Quit and AppMessage::RedrawEvent(event)
QuitMsg == [msg |-> "Quit"]

RedrawMsg(event) == [msg |-> "RedrawEvent", event |-> event]

\* Variant of ForwardStep that hands the newest event over first.
ForwardStepInFront(queue, event, is_running) ==
    IF ~is_running THEN [app_queue |-> Append(queue, QuitMsg), pc |-> "done"]
    ELSE [app_queue |-> <<RedrawMsg(event)>> \o queue, pc |-> "receiving"]

\* One turn of the forwarding loop with the event rx.recv() returned: Quit
\* and break when the session is not running, else the event forwarded.
ForwardStep(queue, event, is_running) ==
    IF ~is_running THEN [app_queue |-> Append(queue, QuitMsg), pc |-> "done"]
    ELSE [app_queue |-> Append(queue, RedrawMsg(event)), pc |-> "receiving"]

\* Variant of PreView that unwraps the lookup of the cursor's grid.
PreViewUnwraps(changed, grids, grid, event) ==
    [event |-> event, looked |-> changed,
     base |-> IF changed /\ grid \in DOMAIN grids
              THEN Some(grids[grid].coord) ELSE None,
     crashed |-> changed /\ grid \notin DOMAIN grids]

\* AppWidgets::pre_view: when cursor_coord_changed is set, the cursor's grid
\* is looked up and, if present, its origin is read to place the input
\* method's cursor.  event names the last message update handled.
PreView(changed, grids, grid, event) ==
    [event |-> event, looked |-> changed,
     base |-> IF changed /\ grid \in DOMAIN grids
              THEN Some(grids[grid].coord) ELSE None,
     crashed |-> FALSE]

NoView == [event |-> "none", looked |-> FALSE, base |-> None, crashed |-> FALSE]

PipeFresh ==
    /\ running = TRUE
    /\ app_queue = <<>>
    /\ forwarder = [pc |-> "unspawned", backlog |-> 0]
    /\ reducer = "waiting"
    /\ shown = NoView

----------------------------------------------------------------------------
(* AppModel::new: the reducer's state when a session starts.               *)

Coord(col, row) == [col |-> col, row |-> row]

NoEvent == [name |-> "none"]

\* The fields of AppModel::new that concern the cursor's mode, the cursor
\* component before any event, and an empty log.
CursorFresh ==
    /\ logged = <<>>
    /\ cursor = [grid |-> 0, coord |-> Coord(0, 0), mode |-> None]
    /\ cursor_modes = <<>>
    /\ cursor_mode = 0
    /\ mode = "Normal"

AppFresh ==
    /\ vgrids = <<>>
    /\ messages = <<>>
    /\ cursor_grid = 0
    /\ cursor_coord = Coord(0, 0)
    /\ cursor_cell = None
    /\ panicked = FALSE
    /\ ev = NoEvent
    /\ trace = <<>>
    /\ before = <<>>
    /\ nev = 0
    /\ cursor_coord_changed = FALSE
    /\ CursorFresh
    /\ BusFresh
    /\ PipeFresh

\* The TextBuf variables while only the reducer runs.
BufIdle ==
    /\ tb = TextBufNew(1, 1)
    /\ op = OpRec("new", 1, 1, NoRuns)
    /\ pre = tb
    /\ scrolled = NoScroll
    /\ nops = 0

----------------------------------------------------------------------------
(* TextBuf specification: any sequence of calls on one buffer.             *)

InitBuf ==
    /\ AppFresh
    /\ hldefs = ThemedHldefs
    /\ \E rows \in 1..MaxRows, cols \in 1..MaxCols :
          /\ tb = TextBufNew(rows, cols)
          /\ op = OpRec("new", rows, cols, NoRuns)
    /\ pre = tb
    /\ scrolled = NoScroll
    /\ nops = 0

Called(name, a, b, runs, buf) ==
    /\ nops < MaxOps
    /\ nops' = nops + 1
    /\ op' = OpRec(name, a, b, runs)
    /\ pre' = tb
    /\ tb' = buf
    /\ UNCHANGED hldefs
    /\ UNCHANGED <<appVars, busVars, pipeVars>>

BufSetCells ==
    \E row \in 0..(tb.rows - 1), col \in 0..(tb.cols - 1), runs \in RunLists :
        /\ ~SetCellsPanics(tb, row, col, runs)
        /\ Called("set_cells", row, col, runs, SetCells(tb, row, col, runs, hldefs))
        /\ scrolled' = NoScroll

BufUp ==
    \E n \in 0..tb.rows :
        /\ Called("up", n, 0, NoRuns, Up(tb, n))
        /\ scrolled' = [stage |-> "up", n |-> n, base |-> tb.cells]

BufDown ==
    \E n \in 0..tb.rows :
        /\ Called("down", n, 0, NoRuns, Down(tb, n))
        /\ scrolled' = IF scrolled.stage = "up" /\ scrolled.n = n
                       THEN [scrolled EXCEPT !.stage = "updown"]
                       ELSE NoScroll

BufClear ==
    /\ Called("clear", 0, 0, NoRuns, Clear(tb))
    /\ scrolled' = NoScroll

BufResetCache ==
    /\ Called("reset_cache", 0, 0, NoRuns, ResetCache(tb, hldefs))
    /\ scrolled' = NoScroll

BufResize ==
    \E rows \in 1..MaxRows, cols \in 1..MaxCols :
        /\ Called("resize", rows, cols, NoRuns, Resize(tb, rows, cols))
        /\ scrolled' = NoScroll

BufSetCache ==
    \E row \in 0..(tb.rows - 1) :
        /\ Called("set_cache", row, 0, NoRuns, SetCache(tb, row))
        /\ scrolled' = NoScroll

NextBuf ==
    \/ BufSetCells
    \/ BufUp
    \/ BufDown
    \/ BufClear
    \/ BufResetCache
    \/ BufResize
    \/ BufSetCache

SpecBuf == InitBuf /\ [][NextBuf]_vars

----------------------------------------------------------------------------
(* VimGrid: [id, coord, width, height, visible, is_float, focusable,       *)
(* viewport, textbuf].                                                     *)

\* VimGrid::new(id, coord, (width, height), ..): the grid owns a TextBuf
\* created by TextBuf::new() and resized to height x width.
VimGridNew(id, coord, width, height) ==
    [id |-> id, coord |-> coord, width |-> width, height |-> height,
     visible |-> TRUE, is_float |-> FALSE, focusable |-> TRUE,
     viewport |-> None,
     textbuf |-> Resize(TextBufNew(1, 1), height, width)]

\* VimGrid::resize(width, height)
VimGridResize(vgrid, width, height) ==
    [vgrid EXCEPT !.width = width, !.height = height,
                  !.textbuf = Resize(vgrid.textbuf, height, width)]

\* VimGrid::set_coord(col, row)
VimGridSetCoord(vgrid, col, row) == [vgrid EXCEPT !.coord = Coord(col, row)]

\* VimGrid::show()
VimGridShow(vgrid) == [vgrid EXCEPT !.visible = TRUE]

\* VimGrid::hide()
VimGridHide(vgrid) == [vgrid EXCEPT !.visible = FALSE]

\* VimGrid::set_viewport(top, bottom)
VimGridSetViewport(vgrid, top, bottom) ==
    [vgrid EXCEPT !.viewport = Some(<<top, bottom>>)]

\* VimGrid::up(rows)
VimGridUp(vgrid, rows) == [vgrid EXCEPT !.textbuf = Up(@, rows)]

\* VimGrid::down(rows)
VimGridDown(vgrid, rows) == [vgrid EXCEPT !.textbuf = Down(@, rows)]

\* VimGrid::clear()
VimGridClear(vgrid) == [vgrid EXCEPT !.textbuf = Clear(@)]

\* FactoryMap::remove(grid): no effect when the grid is absent.
RemoveGrid(grids, grid) == [g \in (DOMAIN grids) \ {grid} |-> grids[g]]

\* FactoryMap::flush(): the registry itself stays as it is.
FactoryMapFlush(grids) == grids

\* HighlightDefinitions::set(id, style)
HlSet(hl, id, style) ==
    [hl EXCEPT !.styles = [i \in (DOMAIN hl.styles) \cup {id} |->
                              IF i = id THEN style ELSE hl.styles[i]]]

\* HighlightDefinitions::set_defaults(colors)
HlSetDefaults(hl, colors) == [hl EXCEPT !.defaults = colors]

\* FactoryMap::get(grid).is_some()
HasGrid(grids, grid) == grid \in DOMAIN grids

\* FactoryMap::insert(grid, vgrid)
InsertGrid(grids, grid, vgrid) ==
    [g \in (DOMAIN grids) \cup {grid} |-> IF g = grid THEN vgrid ELSE grids[g]]

\* TextBuf::cell(row, col)
TextBufCell(buf, row, col) ==
    IF row < Len(buf.cells) /\ col < Len(buf.cells[row + 1].boxed)
    THEN Some(buf.cells[row + 1].boxed[col + 1])
    ELSE None

----------------------------------------------------------------------------
(* AppModel::update, one action per RedrawEvent arm.  An arm that panics   *)
(* aborts the reducer: panicked becomes TRUE and no further event is       *)
(* applied.                                                                *)

Event(name, args) == [name |-> name, args |-> args]

\* The levels of the log records update writes for a redraw event, in the
\* order of its log:: calls, up to the end of the arm or the panic that
\* aborts it.
Logged(event) ==
    LET a == event.args
        n == event.name
    IN
    IF n = "OptionSetUnknown" THEN <<"debug">>
    ELSE IF n \in {"Clear", "WindowHide", "WindowClose", "Destroy", "Flush"}
    THEN <<"info">>
    ELSE IF n = "GridLine" THEN
      IF ~HasGrid(vgrids, a.grid) THEN <<"debug">>
      ELSE IF SetCellsPanics(vgrids[a.grid].textbuf, a.row, a.column_start, a.cells)
      THEN <<"debug">>
      ELSE IF ~(cursor_grid = a.grid /\ a.row = cursor_coord.row) THEN <<"debug">>
      ELSE LET buf == SetCells(vgrids[a.grid].textbuf, a.row, a.column_start,
                               a.cells, hldefs)
           IN  IF TextBufCell(buf, cursor_coord.row, cursor_coord.col) # None
               THEN <<"debug", "trace">> ELSE <<"debug", "error">>
    ELSE IF n = "Scroll" THEN
      IF ~HasGrid(vgrids, a.grid) \/ a.rows = 0 THEN <<>>
      ELSE IF Max(a.rows, -a.rows) > vgrids[a.grid].textbuf.rows THEN <<>>
      ELSE IF cursor_grid = a.grid
              /\ TextBufCell(vgrids[a.grid].textbuf, cursor_coord.row,
                             cursor_coord.col) # None
      THEN <<"info", "debug", "debug">> ELSE <<"info", "debug">>
    ELSE IF n = "Resize" THEN
      IF a.width < 1 \/ a.height < 1 \/ HasGrid(vgrids, a.grid)
      THEN <<"info">> ELSE <<"info", "error">>
    ELSE IF n = "WindowPosition" THEN
      IF ~(a.width > 1) \/ ~(a.height > 1) THEN <<>>
      ELSE IF HasGrid(vgrids, a.grid) THEN <<"info", "info">>
      ELSE <<"error", "info">>
    ELSE IF n = "WindowViewport" THEN
      IF HasGrid(vgrids, a.grid) THEN <<"info">> ELSE <<"info", "info", "warn">>
    ELSE IF n = "CursorGoto" THEN
      IF ~HasGrid(vgrids, a.grid) THEN <<>>
      ELSE IF TextBufCell(vgrids[a.grid].textbuf, a.row, a.column) # None
      THEN <<"info">> ELSE <<"warn">>
    ELSE IF n = "ModeChange" THEN
      IF a.mode_index < Len(cursor_modes) THEN <<"info">> ELSE <<>>
    ELSE IF n = "MessageShow" THEN <<"debug">>
    ELSE IF n \in {"MessageShowMode", "MessageRuler", "MessageClear"}
    THEN <<"warn">>
    ELSE IF n = "MessageSetPosition" THEN
      IF HasGrid(vgrids, 1) THEN <<"debug", "debug">> ELSE <<"debug">>
    ELSE IF n = "WindowFloatPosition" THEN
      IF HasGrid(vgrids, a.anchor_grid) /\ HasGrid(vgrids, a.grid)
      THEN <<"info", "info", "info">> ELSE <<"info", "info">>
    ELSE IF n \in {"DefaultColorsSet", "HighlightAttributesDefine", "ModeInfoSet"}
    THEN <<>>
    ELSE <<"error">>

\* One message handled by update: the bookkeeping shared by all arms.
Handled(event) ==
    /\ ~panicked
    /\ nev < MaxEvents
    /\ nev' = nev + 1
    /\ ev' = event
    /\ before' = messages
    /\ logged' = Logged(event)
    /\ UNCHANGED bufVars

\* A message handled by an arm that leaves the highlight table, the cursor
\* component's grid, coordinate and mode, and the registered modes alone.
Applied(event) ==
    /\ Handled(event)
    /\ UNCHANGED <<hldefs, cursor, modeVars>>

Panic ==
    /\ panicked' = TRUE
    /\ UNCHANGED <<vgrids, messages, cursor_grid, cursor_coord, cursor_cell,
                   cursor_coord_changed>>

\* Variant of EvResize that always puts a new grid under the id.
EvResizeRecreates(grid, width, height) ==
    /\ Applied(Event("Resize", [grid |-> grid, width |-> width, height |-> height]))
    /\ IF width < 1 \/ height < 1 THEN Panic
       ELSE /\ vgrids' = InsertGrid(vgrids, grid,
                                    VimGridNew(grid, Coord(0, 0), width, height))
            /\ UNCHANGED <<messages, cursor_grid, cursor_coord, cursor_cell,
                           panicked, cursor_coord_changed>>

\* RedrawEvent::Resize { grid, width, height }
EvResize(grid, width, height) ==
    /\ Applied(Event("Resize", [grid |-> grid, width |-> width, height |-> height]))
    /\ IF width < 1 \/ height < 1 THEN Panic
       ELSE /\ vgrids' =
                 IF HasGrid(vgrids, grid)
                 THEN [vgrids EXCEPT ![grid] = VimGridResize(@, width, height)]
                 ELSE InsertGrid(vgrids, grid,
                                 VimGridNew(grid, Coord(0, 0), width, height))
            /\ UNCHANGED <<messages, cursor_grid, cursor_coord, cursor_cell,
                           panicked, cursor_coord_changed>>

\* RedrawEvent::WindowPosition { grid, start_row, start_column, width, height }
EvWindowPosition(grid, row, column, width, height) ==
    /\ Applied(Event("WindowPosition",
                     [grid |-> grid, row |-> row, column |-> column,
                      width |-> width, height |-> height]))
    /\ IF ~(width > 1) \/ ~(height > 1) THEN Panic
       ELSE /\ vgrids' =
                 IF ~HasGrid(vgrids, grid)
                 THEN InsertGrid(vgrids, grid,
                                 VimGridNew(grid, Coord(column, row), width, height))
                 ELSE [vgrids EXCEPT ![grid] =
                         VimGridShow(VimGridSetCoord(
                             VimGridResize(@, width, height), column, row))]
            /\ UNCHANGED <<messages, cursor_grid, cursor_coord, cursor_cell,
                           panicked, cursor_coord_changed>>

\* RedrawEvent::GridLine { grid, row, column_start, cells }
EvGridLine(grid, row, column_start, cells) ==
    /\ Applied(Event("GridLine",
                     [grid |-> grid, row |-> row, column_start |-> column_start,
                      cells |-> cells]))
    /\ IF ~HasGrid(vgrids, grid) THEN Panic
       ELSE IF SetCellsPanics(vgrids[grid].textbuf, row, column_start, cells)
       THEN Panic
       ELSE
         LET buf == SetCells(vgrids[grid].textbuf, row, column_start, cells, hldefs)
             cell == TextBufCell(buf, cursor_coord.row, cursor_coord.col)
         IN  /\ vgrids' = [vgrids EXCEPT ![grid].textbuf = buf]
             /\ cursor_cell' =
                  IF cursor_grid = grid /\ row = cursor_coord.row /\ cell # None
                  THEN cell ELSE cursor_cell
             /\ UNCHANGED <<messages, cursor_grid, cursor_coord, panicked,
                            cursor_coord_changed>>

\* Variant of Flushed that empties the registry.
FlushedClearsGrids(grids) == <<>>

\* The registry as the Flush arm leaves it: self.vgrids.flush().
Flushed(grids) == FactoryMapFlush(grids)

\* RedrawEvent::Flush
EvFlush ==
    /\ Applied(Event("Flush", <<>>))
    /\ vgrids' = Flushed(vgrids)
    /\ UNCHANGED <<messages, cursor_grid, cursor_coord, cursor_cell,
                   panicked, cursor_coord_changed>>

\* Variant of AnchorOffset that treats every anchor as NorthWest.
AnchorOffsetNorthWest(anchor, anchor_column, anchor_row, width, height) ==
    <<anchor_column, anchor_row>>

\* The (col, row) offset the anchor corner gives (the match on anchor).
AnchorOffset(anchor, anchor_column, anchor_row, width, height) ==
    CASE anchor = "NorthWest" -> <<anchor_column, anchor_row>>
      [] anchor = "NorthEast" -> <<anchor_column - width, anchor_row>>
      [] anchor = "SouthWest" -> <<anchor_column, anchor_row - height>>
      [] anchor = "SouthEast" -> <<anchor_column - width, anchor_row - height>>

\* Variant of FloatPlaced without the final clamp of the offset.
FloatPlacedUnclamped(vgrid, coord, anchor, anchor_row, anchor_column, focusable) ==
    LET off == AnchorOffset(anchor, Max(anchor_column, 0), Max(anchor_row, 0),
                            vgrid.width, vgrid.height)
    IN  [vgrid EXCEPT !.coord = [col |-> coord.col + off[1],
                                 row |-> coord.row + off[2]],
                      !.is_float = TRUE, !.focusable = focusable]

\* The grid as WindowFloatPosition leaves it.
FloatPlaced(vgrid, coord, anchor, anchor_row, anchor_column, focusable) ==
    LET column == Max(anchor_column, 0)
        row == Max(anchor_row, 0)
        off == AnchorOffset(anchor, column, row, vgrid.width, vgrid.height)
    IN  [VimGridSetCoord(vgrid, coord.col + Max(off[1], 0),
                         coord.row + Max(off[2], 0))
            EXCEPT !.is_float = TRUE, !.focusable = focusable]

\* RedrawEvent::WindowFloatPosition { grid, anchor, anchor_grid, anchor_row,
\*                                    anchor_column, focusable }
EvWindowFloatPosition(grid, anchor, anchor_grid, anchor_row, anchor_column, focusable) ==
    /\ Applied(Event("WindowFloatPosition",
                     [grid |-> grid, anchor |-> anchor,
                      anchor_grid |-> anchor_grid, anchor_row |-> anchor_row,
                      anchor_column |-> anchor_column, focusable |-> focusable]))
    /\ IF ~HasGrid(vgrids, anchor_grid) \/ ~HasGrid(vgrids, grid) THEN Panic
       ELSE /\ vgrids' = [vgrids EXCEPT ![grid] =
                            FloatPlaced(@, vgrids[anchor_grid].coord, anchor,
                                        anchor_row, anchor_column, focusable)]
            /\ UNCHANGED <<messages, cursor_grid, cursor_coord, cursor_cell,
                           panicked, cursor_coord_changed>>

\* Variant of MessageShown that never pops.
MessageShownIgnoresReplace(queue, kind, content, replace_last) ==
    Append(queue, [kind |-> kind, content |-> content])

\* The queue as MessageShow leaves it.
MessageShown(queue, kind, content, replace_last) ==
    LET popped == IF replace_last /\ queue # <<>>
                  THEN SubSeq(queue, 1, Len(queue) - 1) ELSE queue
    IN  Append(popped, [kind |-> kind, content |-> content])

\* RedrawEvent::MessageShow { kind, content, replace_last }
EvMessageShow(kind, content, replace_last) ==
    /\ Applied(Event("MessageShow",
                     [kind |-> kind, content |-> content,
                      replace_last |-> replace_last]))
    /\ messages' = MessageShown(messages, kind, content, replace_last)
    /\ UNCHANGED <<vgrids, cursor_grid, cursor_coord, cursor_cell, panicked,
                   cursor_coord_changed>>

\* RedrawEvent::MessageClear
EvMessageClear ==
    /\ Applied(Event("MessageClear", <<>>))
    /\ messages' = <<>>
    /\ UNCHANGED <<vgrids, cursor_grid, cursor_coord, cursor_cell, panicked,
                   cursor_coord_changed>>

\* RedrawEvent::DefaultColorsSet { colors }
EvDefaultColorsSet(colors) ==
    /\ Handled(Event("DefaultColorsSet", [colors |-> colors]))
    /\ hldefs' = HlSetDefaults(hldefs, colors)
    /\ UNCHANGED <<cursor, modeVars>>
    /\ UNCHANGED <<vgrids, messages, cursor_grid, cursor_coord, cursor_cell,
                   panicked, cursor_coord_changed>>

\* RedrawEvent::HighlightAttributesDefine { id, style }
EvHighlightAttributesDefine(id, style) ==
    /\ Handled(Event("HighlightAttributesDefine", [id |-> id, style |-> style]))
    /\ hldefs' = HlSet(hldefs, id, style)
    /\ UNCHANGED <<cursor, modeVars>>
    /\ UNCHANGED <<vgrids, messages, cursor_grid, cursor_coord, cursor_cell,
                   panicked, cursor_coord_changed>>

\* RedrawEvent::Clear { grid }
EvClear(grid) ==
    /\ Applied(Event("Clear", [grid |-> grid]))
    /\ vgrids' = IF HasGrid(vgrids, grid)
                 THEN [vgrids EXCEPT ![grid] = VimGridClear(@)] ELSE vgrids
    /\ UNCHANGED <<messages, cursor_grid, cursor_coord, cursor_cell,
                   panicked, cursor_coord_changed>>

\* Variant of Scrolled that shifts the other way.
ScrolledReversed(vgrid, rows) ==
    IF rows > 0 THEN VimGridDown(vgrid, rows) ELSE VimGridUp(vgrid, -rows)

\* The grid as the scroll of the Scroll arm leaves it (rows # 0).
Scrolled(vgrid, rows) ==
    IF rows > 0 THEN VimGridUp(vgrid, rows) ELSE VimGridDown(vgrid, -rows)

\* Variant of EvScroll that leaves the cursor's cell as it was.
EvScrollKeepsCell(grid, rows, columns) ==
    /\ Applied(Event("Scroll", [grid |-> grid, rows |-> rows,
                                columns |-> columns]))
    /\ IF ~HasGrid(vgrids, grid) THEN Panic
       ELSE IF rows = 0 THEN Panic
       ELSE IF Max(rows, -rows) > vgrids[grid].textbuf.rows THEN Panic
       ELSE /\ vgrids' = [vgrids EXCEPT ![grid] = Scrolled(vgrids[grid], rows)]
            /\ UNCHANGED <<messages, cursor_grid, cursor_coord, cursor_cell,
                           panicked, cursor_coord_changed>>

\* RedrawEvent::Scroll { grid, rows, columns, .. }: unwrap() on a missing
\* grid, unimplemented!() when rows is zero, a slice out of range when more
\* rows are scrolled than the buffer has, and unwrap() on the cursor's cell
\* after the rows have been shifted.
EvScroll(grid, rows, columns) ==
    /\ Applied(Event("Scroll", [grid |-> grid, rows |-> rows,
                                columns |-> columns]))
    /\ IF ~HasGrid(vgrids, grid) THEN Panic
       ELSE IF rows = 0 THEN Panic
       ELSE IF Max(rows, -rows) > vgrids[grid].textbuf.rows THEN Panic
       ELSE
         LET vgrid == Scrolled(vgrids[grid], rows)
             cell == TextBufCell(vgrid.textbuf, cursor_coord.row, cursor_coord.col)
         IN  /\ vgrids' = [vgrids EXCEPT ![grid] = vgrid]
             /\ panicked' = (cursor_grid = grid /\ cell = None)
             /\ cursor_cell' = IF cursor_grid = grid /\ cell # None
                               THEN cell ELSE cursor_cell
             /\ UNCHANGED <<messages, cursor_grid, cursor_coord,
                            cursor_coord_changed>>

\* RedrawEvent::WindowViewport { grid, top_line, bottom_line, .. }
EvWindowViewport(grid, top, bottom) ==
    /\ Applied(Event("WindowViewport",
                     [grid |-> grid, top |-> top, bottom |-> bottom]))
    /\ vgrids' =
         IF ~HasGrid(vgrids, grid)
         THEN InsertGrid(vgrids, grid,
                         VimGridSetViewport(
                             VimGridNew(grid, Coord(0, 0), 1, Max(bottom - top, 1)),
                             top, bottom))
         ELSE [vgrids EXCEPT ![grid] =
                 VimGridShow(VimGridSetViewport(@, top, bottom))]
    /\ UNCHANGED <<messages, cursor_grid, cursor_coord, cursor_cell,
                   panicked, cursor_coord_changed>>

\* RedrawEvent::WindowHide { grid }
EvWindowHide(grid) ==
    /\ Applied(Event("WindowHide", [grid |-> grid]))
    /\ IF ~HasGrid(vgrids, grid) THEN Panic
       ELSE /\ vgrids' = [vgrids EXCEPT ![grid] = VimGridHide(@)]
            /\ UNCHANGED <<messages, cursor_grid, cursor_coord, cursor_cell,
                           panicked, cursor_coord_changed>>

\* Variant of Removed that empties the registry.
RemovedEverything(grids, grid) == <<>>

\* The registry as the WindowClose and Destroy arms leave it.
Removed(grids, grid) == RemoveGrid(grids, grid)

\* RedrawEvent::WindowClose { grid }
EvWindowClose(grid) ==
    /\ Applied(Event("WindowClose", [grid |-> grid]))
    /\ vgrids' = Removed(vgrids, grid)
    /\ UNCHANGED <<messages, cursor_grid, cursor_coord, cursor_cell,
                   panicked, cursor_coord_changed>>

\* RedrawEvent::Destroy { grid }
EvDestroy(grid) ==
    /\ Applied(Event("Destroy", [grid |-> grid]))
    /\ vgrids' = Removed(vgrids, grid)
    /\ UNCHANGED <<messages, cursor_grid, cursor_coord, cursor_cell,
                   panicked, cursor_coord_changed>>

\* Variant of CursorAbsolute that leaves the grid's origin out.
CursorAbsoluteLocal(leftop, column, row) == Coord(column, row)

\* The cursor's coordinate on the surface: (leftop.col + column,
\* leftop.row + row).
CursorAbsolute(leftop, column, row) ==
    Coord(leftop.col + column, leftop.row + row)

\* RedrawEvent::CursorGoto { grid, row, column }: with a cell at (row,
\* column) the cursor's grid, coordinate and cell are set and the cursor
\* component gets the grid and the coordinate on the surface; in both cases
\* cursor_coord_changed is stored and cursor_grid is set.
EvCursorGoto(grid, row, column) ==
    /\ Handled(Event("CursorGoto",
                     [grid |-> grid, row |-> row, column |-> column]))
    /\ UNCHANGED <<hldefs, modeVars>>
    /\ IF ~HasGrid(vgrids, grid) THEN Panic /\ UNCHANGED cursor
       ELSE
         LET cell == TextBufCell(vgrids[grid].textbuf, row, column)
             leftop == vgrids[grid].coord
         IN  /\ cursor_grid' = grid
             /\ cursor_coord' = IF cell # None THEN Coord(column, row)
                                ELSE cursor_coord
             /\ cursor_cell' = IF cell # None THEN cell ELSE cursor_cell
             /\ cursor' = IF cell # None
                          THEN [cursor EXCEPT
                                  !.grid = grid,
                                  !.coord = CursorAbsolute(leftop, column, row)]
                          ELSE cursor
             /\ cursor_coord_changed' = TRUE
             /\ UNCHANGED <<vgrids, messages, panicked>>

\* RedrawEvent::MessageSetPosition { grid, row, scrolled, .. }
EvMessageSetPosition(grid, row, is_scrolled) ==
    /\ Applied(Event("MessageSetPosition",
                     [grid |-> grid, row |-> row, scrolled |-> is_scrolled]))
    /\ IF ~HasGrid(vgrids, 1) THEN Panic
       ELSE
         LET width == vgrids[1].width
             height == IF is_scrolled THEN vgrids[grid].height + 1
                       ELSE vgrids[grid].height
         IN  /\ vgrids' =
                  IF HasGrid(vgrids, grid)
                  THEN [vgrids EXCEPT ![grid] =
                          VimGridShow(VimGridSetCoord(
                              VimGridSetViewport(
                                  VimGridResize(@, width, height), 0, height),
                              0, row))]
                  ELSE InsertGrid(vgrids, grid,
                                  VimGridShow(VimGridNew(grid, Coord(0, row),
                                                         Max(width, 1), 1)))
             /\ UNCHANGED <<messages, cursor_grid, cursor_coord, cursor_cell,
                            panicked, cursor_coord_changed>>

\* The arms that only write a log record.
Ignored ==
    UNCHANGED <<vgrids, messages, cursor_grid, cursor_coord, cursor_cell,
                panicked, cursor_coord_changed>>

\* Variant of EvOptionSetUnknown that aborts on the unknown name.
EvOptionSetUnknownPanics(name, value) ==
    /\ Applied(Event("OptionSetUnknown", [name |-> name, value |-> value]))
    /\ Panic

\* RedrawEvent::OptionSet { gui_option: GuiOption::Unknown(name, value) }
EvOptionSetUnknown(name, value) ==
    /\ Applied(Event("OptionSetUnknown", [name |-> name, value |-> value]))
    /\ Ignored

\* RedrawEvent::MessageShowMode { content }
EvMessageShowMode(content) ==
    /\ Applied(Event("MessageShowMode", [content |-> content]))
    /\ Ignored

\* RedrawEvent::MessageRuler { content }
EvMessageRuler(content) ==
    /\ Applied(Event("MessageRuler", [content |-> content]))
    /\ Ignored

\* Variant of EvUnhandled that aborts on a kind it does not know.
EvUnhandledPanics(kind) ==
    /\ Applied(Event(kind, <<>>))
    /\ Panic

\* The default arm of update's match: a redraw event of a kind with no arm
\* of its own.
EvUnhandled(kind) ==
    /\ Applied(Event(kind, <<>>))
    /\ Ignored

\* AppMessage::ShowPointer
ShowPointerMsg == [msg |-> "ShowPointer"]

\* Variant of SelectedMode that falls back to the last registered mode.
SelectedModeClamped(modes, index) ==
    IF modes = <<>> THEN None ELSE Some(modes[Min(index, Len(modes) - 1) + 1])

\* self.cursor_modes.get(index): the mode at a 0-based index, if any.
SelectedMode(modes, index) ==
    IF index < Len(modes) THEN Some(modes[index + 1]) ELSE None

\* RedrawEvent::ModeInfoSet { cursor_modes }: the list is stored, then the
\* mode at the current index is looked up with unwrap() and given to the
\* cursor component.
EvModeInfoSet(modes) ==
    /\ Handled(Event("ModeInfoSet", [cursor_modes |-> modes]))
    /\ cursor_modes' = modes
    /\ LET selected == SelectedMode(modes, cursor_mode)
       IN  /\ panicked' = (selected = None)
           /\ cursor' = IF selected = None THEN cursor
                        ELSE [cursor EXCEPT !.mode = selected]
    /\ UNCHANGED <<hldefs, cursor_mode, mode, app_queue>>
    /\ UNCHANGED <<vgrids, messages, cursor_grid, cursor_coord, cursor_cell,
                   cursor_coord_changed>>

\* RedrawEvent::ModeChange { mode, mode_index }: the editor mode and the
\* index are stored, then the mode at that index is looked up with unwrap()
\* and given to the cursor component; ShowPointer is sent in visual mode.
EvModeChange(editor_mode, mode_index) ==
    /\ Handled(Event("ModeChange",
                     [mode |-> editor_mode, mode_index |-> mode_index]))
    /\ mode' = editor_mode
    /\ cursor_mode' = mode_index
    /\ LET selected == SelectedMode(cursor_modes, mode_index)
       IN  /\ panicked' = (selected = None)
           /\ cursor' = IF selected = None THEN cursor
                        ELSE [cursor EXCEPT !.mode = selected]
           /\ app_queue' = IF selected # None /\ editor_mode = "Visual"
                           THEN Append(app_queue, ShowPointerMsg)
                           ELSE app_queue
    /\ UNCHANGED <<hldefs, cursor_modes>>
    /\ UNCHANGED <<vgrids, messages, cursor_grid, cursor_coord, cursor_cell,
                   cursor_coord_changed>>

----------------------------------------------------------------------------
(* Inputs of the reducer.                                                  *)

GridIds == {1, 2}

\* (width, height) of Resize and WindowPosition events.
Sizes == {<<4, 2>>, <<2, 3>>}

\* (column, row) of WindowPosition events.
Origins == {<<10, 5>>}

Anchors == {"NorthWest", "NorthEast", "SouthWest", "SouthEast"}

\* (anchor_column, anchor_row) of WindowFloatPosition events.
AnchorPoints == {<<-1, -1>>, <<3, 2>>, <<5, 3>>}

\* GridLine cells of the window runs.
LineRuns == {<<Run("zz", Some(1), Some(2), FALSE)>>}

\* A run "hello" with no highlight id, repeat 1, not double-width.
HelloRun == <<Run("hello", None, Some(1), FALSE)>>

\* The five letters as five runs of one cell each.
LetterRuns ==
    <<Run("h", None, None, FALSE), Run("e", None, None, FALSE),
      Run("l", None, Some(2), FALSE), Run("o", None, None, FALSE)>>

MessageKinds == {"echo", "emsg"}

\* Styled contents: sequences of (highlight id, text) chunks.
MessageContents == {<<<<0, "hi">>>>, <<<<1, "E37">>, <<0, "!">>>>}

----------------------------------------------------------------------------
(* Reducer specification: window events on a fresh session.                *)

Init ==
    /\ hldefs = FreshHldefs
    /\ BufIdle
    /\ AppFresh

WinResize ==
    \E grid \in GridIds, size \in Sizes :
        /\ EvResize(grid, size[1], size[2])
        /\ UNCHANGED <<trace, busVars, pipeVars>>

WinPosition ==
    \E grid \in GridIds, at \in Origins, size \in Sizes :
        /\ EvWindowPosition(grid, at[2], at[1], size[1], size[2])
        /\ UNCHANGED <<trace, busVars, pipeVars>>

WinGridLine ==
    \E grid \in GridIds, cells \in LineRuns :
        /\ EvGridLine(grid, 0, 0, cells)
        /\ UNCHANGED <<trace, busVars, pipeVars>>

WinFlush ==
    /\ EvFlush
    /\ UNCHANGED <<trace, busVars, pipeVars>>

WinFloatPosition ==
    \E grid \in GridIds, anchor \in Anchors, anchor_grid \in GridIds,
       at \in AnchorPoints, focusable \in BOOLEAN :
        /\ EvWindowFloatPosition(grid, anchor, anchor_grid, at[2], at[1],
                                 focusable)
        /\ UNCHANGED <<trace, busVars, pipeVars>>

Next ==
    \/ WinResize
    \/ WinPosition
    \/ WinGridLine
    \/ WinFlush
    \/ WinFloatPosition

Spec == Init /\ [][Next]_vars

----------------------------------------------------------------------------
(* End-to-end specification: the default grid of a fresh session, with the *)
(* applied events recorded in trace.                                       *)

E2EResize ==
    \E size \in {<<80, 24>>, <<5, 1>>} :
        /\ EvResize(1, size[1], size[2])
        /\ trace' = Append(trace, ev')
        /\ UNCHANGED <<busVars, pipeVars>>

E2EGridLine ==
    \E row \in {0, 1}, column_start \in {0, 1}, cells \in {HelloRun, LetterRuns} :
        /\ EvGridLine(1, row, column_start, cells)
        /\ trace' = Append(trace, ev')
        /\ UNCHANGED <<busVars, pipeVars>>

E2EFlush ==
    /\ EvFlush
    /\ trace' = Append(trace, ev')
    /\ UNCHANGED <<busVars, pipeVars>>

NextE2E ==
    \/ E2EResize
    \/ E2EGridLine
    \/ E2EFlush

SpecE2E == Init /\ [][NextE2E]_vars

----------------------------------------------------------------------------
(* Message specification: the message events of a session.                 *)

MsgShow ==
    \E kind \in MessageKinds, content \in MessageContents,
       replace_last \in BOOLEAN :
        /\ EvMessageShow(kind, content, replace_last)
        /\ UNCHANGED <<trace, busVars, pipeVars>>

MsgClear ==
    /\ EvMessageClear
    /\ UNCHANGED <<trace, busVars, pipeVars>>

NextMsg ==
    \/ MsgShow
    \/ MsgClear

SpecMsg == Init /\ [][NextMsg]_vars

----------------------------------------------------------------------------
(* Session specification: the events that create, change and remove grids, *)
(* move the cursor and redefine highlights, in any order.                  *)

\* (width, height) of the Resize events.
LifeSizes == {<<2, 2>>, <<2, 1>>}

\* The colors of a DefaultColorsSet event.
WhiteOnBlack ==
    [foreground |-> Some("white"), background |-> Some("black"),
     special |-> None]

\* The style of a HighlightAttributesDefine event.
BoldStyle == [PlainStyle EXCEPT !.bold = TRUE]

\* The session after its first event, Resize(1, 2, 2), has created the
\* default grid.
InitLife ==
    /\ hldefs = FreshHldefs
    /\ BufIdle
    /\ vgrids = InsertGrid(<<>>, 1, VimGridNew(1, Coord(0, 0), 2, 2))
    /\ messages = <<>>
    /\ cursor_grid = 0
    /\ cursor_coord = Coord(0, 0)
    /\ cursor_cell = None
    /\ panicked = FALSE
    /\ ev = Event("Resize", [grid |-> 1, width |-> 2, height |-> 2])
    /\ trace = <<>>
    /\ before = <<>>
    /\ nev = 0
    /\ cursor_coord_changed = FALSE
    /\ CursorFresh
    /\ BusFresh
    /\ PipeFresh

LifeResize ==
    \E grid \in GridIds, size \in LifeSizes :
        /\ EvResize(grid, size[1], size[2])
        /\ UNCHANGED <<trace, busVars, pipeVars>>

LifeGridLine ==
    \E grid \in GridIds, cells \in LineRuns :
        /\ EvGridLine(grid, 0, 0, cells)
        /\ UNCHANGED <<trace, busVars, pipeVars>>

LifeClear ==
    /\ EvClear(1)
    /\ UNCHANGED <<trace, busVars, pipeVars>>

LifeScroll ==
    \E grid \in GridIds, rows \in {1, -1} :
        /\ EvScroll(grid, rows, 0)
        /\ UNCHANGED <<trace, busVars, pipeVars>>

LifeViewport ==
    /\ EvWindowViewport(2, 0, 2)
    /\ UNCHANGED <<trace, busVars, pipeVars>>

LifeHide ==
    \E grid \in GridIds :
        /\ EvWindowHide(grid)
        /\ UNCHANGED <<trace, busVars, pipeVars>>

LifeClose ==
    \E grid \in GridIds :
        /\ EvWindowClose(grid)
        /\ UNCHANGED <<trace, busVars, pipeVars>>

LifeDestroy ==
    \E grid \in GridIds :
        /\ EvDestroy(grid)
        /\ UNCHANGED <<trace, busVars, pipeVars>>

LifeFlush ==
    /\ EvFlush
    /\ UNCHANGED <<trace, busVars, pipeVars>>

LifeCursorGoto ==
    \E grid \in GridIds, row \in {0, 1} :
        /\ EvCursorGoto(grid, row, 0)
        /\ UNCHANGED <<trace, busVars, pipeVars>>

LifeMessageSetPosition ==
    \E is_scrolled \in BOOLEAN :
        /\ EvMessageSetPosition(2, 1, is_scrolled)
        /\ UNCHANGED <<trace, busVars, pipeVars>>

LifeFloatPosition ==
    \E anchor_grid \in GridIds :
        /\ EvWindowFloatPosition(2, "SouthEast", anchor_grid, 2, 3, TRUE)
        /\ UNCHANGED <<trace, busVars, pipeVars>>

LifeDefaultColorsSet ==
    /\ EvDefaultColorsSet(WhiteOnBlack)
    /\ UNCHANGED <<trace, busVars, pipeVars>>

LifeHighlightDefine ==
    /\ EvHighlightAttributesDefine(1, BoldStyle)
    /\ UNCHANGED <<trace, busVars, pipeVars>>

LifeMessageShow ==
    /\ EvMessageShow("echo", <<<<0, "hi">>>>, FALSE)
    /\ UNCHANGED <<trace, busVars, pipeVars>>

\* The view, which the main loop runs after updates.
LifeView ==
    /\ ~panicked
    /\ shown' = PreView(cursor_coord_changed, vgrids, cursor_grid, ev.name)
    /\ cursor_coord_changed' = FALSE
    /\ panicked' = shown'.crashed
    /\ UNCHANGED <<vgrids, messages, cursor_grid, cursor_coord, cursor_cell,
                   ev, trace, before, nev, logged, cursor, modeVars>>
    /\ UNCHANGED <<hldefs, bufVars, busVars, running, app_queue, forwarder,
                   reducer>>

NextLife ==
    \/ LifeResize
    \/ LifeGridLine
    \/ LifeClear
    \/ LifeScroll
    \/ LifeViewport
    \/ LifeHide
    \/ LifeClose
    \/ LifeDestroy
    \/ LifeFlush
    \/ LifeCursorGoto
    \/ LifeMessageSetPosition
    \/ LifeFloatPosition
    \/ LifeDefaultColorsSet
    \/ LifeHighlightDefine
    \/ LifeMessageShow
    \/ LifeView

SpecLife == InitLife /\ [][NextLife]_vars

----------------------------------------------------------------------------
(* Placement specification: the events that create, place and resize       *)
(* grids, on a session whose default grid exists.                          *)

\* (width, height) of the Resize and WindowPosition events.
PlaceSizes == {<<1, 2>>, <<2, 2>>, <<3, 3>>}

PlaceResize ==
    \E grid \in GridIds, size \in PlaceSizes :
        /\ EvResize(grid, size[1], size[2])
        /\ UNCHANGED <<trace, busVars, pipeVars>>

PlacePosition ==
    \E grid \in GridIds, at \in Origins, size \in PlaceSizes :
        /\ EvWindowPosition(grid, at[2], at[1], size[1], size[2])
        /\ UNCHANGED <<trace, busVars, pipeVars>>

PlaceViewport ==
    \E grid \in GridIds, lines \in {<<0, 2>>, <<3, 3>>} :
        /\ EvWindowViewport(grid, lines[1], lines[2])
        /\ UNCHANGED <<trace, busVars, pipeVars>>

PlaceHide ==
    \E grid \in GridIds :
        /\ EvWindowHide(grid)
        /\ UNCHANGED <<trace, busVars, pipeVars>>

PlaceFloat ==
    \E anchor_grid \in GridIds :
        /\ EvWindowFloatPosition(2, "NorthWest", anchor_grid, 1, 1, TRUE)
        /\ UNCHANGED <<trace, busVars, pipeVars>>

NextPlace ==
    \/ PlaceResize
    \/ PlacePosition
    \/ PlaceViewport
    \/ PlaceHide
    \/ PlaceFloat

SpecPlace == InitLife /\ [][NextPlace]_vars

----------------------------------------------------------------------------
(* Cursor specification: cursor moves, scrolls, mode events and the events *)
(* update only logs, on a session whose default grid exists.               *)

\* The cursor modes of a ModeInfoSet event.
ModeLists == {<<>>, <<[shape |-> "Block"], [shape |-> "Vertical"]>>}

EditorModes == {"Normal", "Insert", "Visual"}

\* Redraw events that reach the default arm.
UnhandledKinds == {"WindowExternalPosition", "CommandLinePosition"}

CurPosition ==
    /\ EvWindowPosition(2, 5, 10, 2, 2)
    /\ UNCHANGED <<trace, busVars, pipeVars>>

CurGridLine ==
    \E cells \in LineRuns :
        /\ EvGridLine(1, 0, 0, cells)
        /\ UNCHANGED <<trace, busVars, pipeVars>>

CurCursorGoto ==
    \E grid \in GridIds, row \in {0, 2}, column \in {0, 1} :
        /\ EvCursorGoto(grid, row, column)
        /\ UNCHANGED <<trace, busVars, pipeVars>>

CurScroll ==
    \E rows \in {0, 1}, columns \in {0, 1} :
        /\ EvScroll(1, rows, columns)
        /\ UNCHANGED <<trace, busVars, pipeVars>>

CurOptionSet ==
    /\ EvOptionSetUnknown("ext_termcolors", TRUE)
    /\ UNCHANGED <<trace, busVars, pipeVars>>

CurMessageShow ==
    /\ EvMessageShow("echo", <<<<0, "hi">>>>, FALSE)
    /\ UNCHANGED <<trace, busVars, pipeVars>>

CurMessageShowMode ==
    /\ EvMessageShowMode(<<<<0, "-- INSERT --">>>>)
    /\ UNCHANGED <<trace, busVars, pipeVars>>

CurMessageRuler ==
    /\ EvMessageRuler(<<<<0, "1,1">>>>)
    /\ UNCHANGED <<trace, busVars, pipeVars>>

CurUnhandled ==
    \E kind \in UnhandledKinds :
        /\ EvUnhandled(kind)
        /\ UNCHANGED <<trace, busVars, pipeVars>>

CurModeInfoSet ==
    \E modes \in ModeLists :
        /\ EvModeInfoSet(modes)
        /\ UNCHANGED <<trace, busVars, running, forwarder, reducer, shown>>

CurModeChange ==
    \E editor_mode \in EditorModes, mode_index \in 0..2 :
        /\ EvModeChange(editor_mode, mode_index)
        /\ UNCHANGED <<trace, busVars, running, forwarder, reducer, shown>>

NextCur ==
    \/ CurPosition
    \/ CurGridLine
    \/ CurCursorGoto
    \/ CurScroll
    \/ CurOptionSet
    \/ CurMessageShow
    \/ CurMessageShowMode
    \/ CurMessageRuler
    \/ CurUnhandled
    \/ CurModeInfoSet
    \/ CurModeChange

SpecCur == InitLife /\ [][NextCur]_vars

----------------------------------------------------------------------------
(* Pipeline specification: the transport sends redraw events through the   *)
(* event bus, the forwarding task hands them to the main loop, the main    *)
(* loop runs update and then the view for each message, and the session    *)
(* may be shut down at any moment.                                         *)

\* The redraw events the transport sends.
PipeEvents ==
    { Event("Resize", [grid |-> 1, width |-> 2, height |-> 2]),
      Event("GridLine", [grid |-> 1, row |-> 0, column_start |-> 0,
                         cells |-> <<Run("zz", Some(1), Some(2), FALSE)>>]),
      Event("CursorGoto", [grid |-> 1, row |-> 0, column |-> 0]),
      Event("Flush", <<>>) }

\* update's match on the redraw event.
Dispatch(event) ==
    \/ /\ event.name = "Resize"
       /\ EvResize(event.args.grid, event.args.width, event.args.height)
    \/ /\ event.name = "GridLine"
       /\ EvGridLine(event.args.grid, event.args.row, event.args.column_start,
                     event.args.cells)
    \/ /\ event.name = "CursorGoto"
       /\ EvCursorGoto(event.args.grid, event.args.row, event.args.column)
    \/ /\ event.name = "Flush"
       /\ EvFlush

\* The transport publishes a redraw event: EVENT_AGGREGATOR.send(event).
PipeSend ==
    \E event \in PipeEvents :
        LET r == Sent(aggregator, channels, "RedrawEvent", event)
        IN  /\ ~panicked
            /\ Len(buslog.sent["RedrawEvent"]) < MaxEvents
            /\ aggregator' = r.aggregator
            /\ channels' = r.channels
            /\ buslog' =
                 [buslog EXCEPT
                    !.sent["RedrawEvent"] =
                        IF r.outcome = "sent" THEN Append(@, event) ELSE @,
                    !.op = BusCall("send", "RedrawEvent", r.outcome,
                                   buslog.handed["RedrawEvent"],
                                   ~aggregator.poisoned)]
            /\ UNCHANGED <<hldefs, bufVars, appVars, lockVars, pipeVars>>

\* VimMessager::init: register for redraw events and spawn the forwarding
\* task.
PipeInit ==
    LET r == RegisterEvent(aggregator, "RedrawEvent")
    IN  /\ ~panicked
        /\ forwarder.pc = "unspawned"
        /\ aggregator' = r.aggregator
        /\ forwarder' =
             [pc |-> IF r.outcome = "receiver" THEN "receiving" ELSE "panicked",
              backlog |-> Len(channels["RedrawEvent"].queue)]
        /\ buslog' =
             [buslog EXCEPT
                !.handed["RedrawEvent"] =
                    IF r.outcome = "receiver" THEN @ + 1 ELSE @,
                !.op = BusCall("register_event", "RedrawEvent", r.outcome,
                               buslog.handed["RedrawEvent"],
                               ~aggregator.poisoned)]
        /\ UNCHANGED <<channels, running, app_queue, reducer, shown>>
        /\ UNCHANGED <<hldefs, bufVars, appVars, lockVars>>

\* One turn of the forwarding task's loop.  Leaving the loop drops the
\* receiver and with it whatever the channel still holds.
PipeForward ==
    /\ ~panicked
    /\ forwarder.pc = "receiving"
    /\ channels["RedrawEvent"].queue # <<>>
    /\ LET event == Head(channels["RedrawEvent"].queue).value
           r == ForwardStep(app_queue, event, running)
       IN  /\ app_queue' = r.app_queue
           /\ forwarder' = [forwarder EXCEPT !.pc = r.pc]
           /\ channels' =
                [channels EXCEPT !["RedrawEvent"] =
                    IF r.pc = "done" THEN [queue |-> <<>>, closed |-> TRUE]
                    ELSE [@ EXCEPT !.queue = Tail(@)]]
           /\ buslog' = [buslog EXCEPT
                           !.received["RedrawEvent"] = Append(@, event)]
    /\ UNCHANGED <<aggregator, running, reducer, shown>>
    /\ UNCHANGED <<hldefs, bufVars, appVars, lockVars>>

\* RUNNING_TRACKER.quit(..): the running flag is cleared.
PipeShutdown ==
    /\ ~panicked
    /\ running
    /\ running' = FALSE
    /\ UNCHANGED <<app_queue, forwarder, reducer, shown>>
    /\ UNCHANGED <<hldefs, bufVars, appVars, busVars>>

\* The main loop takes one AppMessage and runs update on it: Quit makes
\* update return false, which ends the loop; a redraw event is applied and
\* the view is due.
PipeReduce ==
    /\ ~panicked
    /\ reducer = "waiting"
    /\ app_queue # <<>>
    /\ app_queue' = Tail(app_queue)
    /\ \/ /\ Head(app_queue).msg = "Quit"
          /\ reducer' = "stopped"
          /\ UNCHANGED <<hldefs, bufVars, appVars, lockVars>>
       \/ /\ Head(app_queue).msg = "RedrawEvent"
          /\ Dispatch(Head(app_queue).event)
          /\ trace' = Append(trace, ev')
          /\ reducer' = "viewing"
    /\ UNCHANGED <<busVars, running, forwarder, shown>>

\* The main loop runs the view after an update that returned true.
PipeView ==
    /\ ~panicked
    /\ reducer = "viewing"
    /\ shown' = PreView(cursor_coord_changed, vgrids, cursor_grid, ev.name)
    /\ cursor_coord_changed' = FALSE
    /\ panicked' = shown'.crashed
    /\ reducer' = "waiting"
    /\ UNCHANGED <<vgrids, messages, cursor_grid, cursor_coord, cursor_cell,
                   ev, trace, before, nev, logged, cursor, modeVars>>
    /\ UNCHANGED <<hldefs, bufVars, busVars, running, app_queue, forwarder>>

NextPipe ==
    \/ PipeSend
    \/ PipeInit
    \/ PipeForward
    \/ PipeShutdown
    \/ PipeReduce
    \/ PipeView

SpecPipe == Init /\ [][NextPipe]_vars

\* The same with the scheduling the runtimes give: the spawned forwarding
\* task and the main loop run whenever they have something to do; nothing
\* obliges the transport to send or the session to be shut down.
SpecPipeFair ==
    /\ SpecPipe
    /\ WF_vars(PipeInit)
    /\ WF_vars(PipeForward)
    /\ WF_vars(PipeReduce)
    /\ WF_vars(PipeView)

----------------------------------------------------------------------------
(* Event bus specification: senders, subscribers and receivers of two      *)
(* payload types calling the bus in any order.                             *)

BusSend ==
    \E type \in PayloadTypes :
        LET value == Len(buslog.sent[type]) + 1
            r == Sent(aggregator, channels, type, value)
        IN  /\ buslog.calls < MaxBusOps
            /\ aggregator' = r.aggregator
            /\ channels' = r.channels
            /\ buslog' =
                 [buslog EXCEPT
                    !.calls = @ + 1,
                    !.sent[type] = IF r.outcome = "sent"
                                   THEN Append(@, Payload(type, value)) ELSE @,
                    !.op = BusCall("send", type, r.outcome,
                                   buslog.handed[type], ~aggregator.poisoned)]
            /\ UNCHANGED <<hldefs, bufVars, appVars, lockVars, pipeVars>>

BusRegister ==
    \E type \in PayloadTypes :
        LET r == RegisterEvent(aggregator, type)
        IN  /\ buslog.calls < MaxBusOps
            /\ aggregator' = r.aggregator
            /\ buslog' =
                 [buslog EXCEPT
                    !.calls = @ + 1,
                    !.handed[type] = IF r.outcome = "receiver" THEN @ + 1 ELSE @,
                    !.op = BusCall("register_event", type, r.outcome,
                                   buslog.handed[type], ~aggregator.poisoned)]
            /\ UNCHANGED <<channels, hldefs, bufVars, appVars, lockVars, pipeVars>>

\* UnboundedReceiver::recv on a receiver register_event handed out.
BusRecv ==
    \E type \in PayloadTypes :
        /\ buslog.handed[type] >= 1
        /\ channels[type].queue # <<>>
        /\ channels' = [channels EXCEPT ![type].queue = Tail(@)]
        /\ buslog' = [buslog EXCEPT
                        !.received[type] = Append(@, Head(channels[type].queue)),
                        !.op = BusCall("recv", type, "received",
                                       buslog.handed[type], ~aggregator.poisoned)]
        /\ UNCHANGED <<aggregator, hldefs, bufVars, appVars, lockVars, pipeVars>>

NextBus ==
    \/ BusSend
    \/ BusRegister
    \/ BusRecv

SpecBus == Init /\ [][NextBus]_vars

----------------------------------------------------------------------------
(* TextBuf calls at the edges: set_cells on a row the buffer does not have *)
(* and the shifts the Scroll arm makes, among writes, shapings and shifts. *)

\* set_cells with row >= rows.
BufSetCellsBeyond ==
    \E row \in tb.rows..(tb.rows + 1), col \in {0, tb.cols}, runs \in RunLists :
        /\ Called("set_cells", row, col, runs, SetCells(tb, row, col, runs, hldefs))
        /\ scrolled' = NoScroll

\* The shift of the Scroll arm on a grid with this buffer: rows is not zero
\* and at most the number of rows either way.
BufScroll ==
    \E rows \in ((-tb.rows)..tb.rows) \ {0} :
        /\ Called("scroll", rows, 0, NoRuns, Scrolled([textbuf |-> tb], rows).textbuf)
        /\ scrolled' = NoScroll

NextBufEdge ==
    \/ BufSetCells
    \/ BufSetCellsBeyond
    \/ BufUp
    \/ BufDown
    \/ BufScroll
    \/ BufSetCache

SpecBufEdge == InitBuf /\ [][NextBufEdge]_vars

----------------------------------------------------------------------------
(* Event bus under threads: send and register_event taken apart at their   *)
(* lock acquisitions.  RwLock::write blocks until the lock is free; a      *)
(* guard lives to the end of the match or if-let statement that took it.   *)

ThreadAt(t, pc, type) == [threads EXCEPT ![t] = [pc |-> pc, type |-> type]]

\* get_sender::<T> takes the write lock of parent_senders.  An occupied
\* entry is cloned and the lock released; a vacant one gets the new sender
\* and the thread goes on, still holding the lock, to unclaimed_receivers.
GsLockSenders ==
    \E t \in Threads, type \in PayloadTypes :
        /\ buslog.calls < MaxBusOps
        /\ threads[t].pc = "idle"
        /\ locks.parent_senders = 0
        /\ buslog' = [buslog EXCEPT !.calls = @ + 1]
        /\ IF aggregator.poisoned
           THEN UNCHANGED <<aggregator, threads, locks>>
           ELSE IF type \in aggregator.parent_senders
           THEN /\ threads' = ThreadAt(t, "send", type)
                /\ UNCHANGED <<aggregator, locks>>
           ELSE /\ aggregator' = [aggregator EXCEPT !.parent_senders = @ \cup {type}]
                /\ locks' = [locks EXCEPT !.parent_senders = t]
                /\ threads' = ThreadAt(t, "get_sender_receivers", type)
        /\ UNCHANGED <<channels, hldefs, bufVars, appVars, pipeVars>>

\* The vacant branch of get_sender takes the write lock of
\* unclaimed_receivers, stores the receiver and returns, dropping both guards.
GsLockReceivers ==
    \E t \in Threads :
        /\ threads[t].pc = "get_sender_receivers"
        /\ locks.unclaimed_receivers = 0
        /\ locks' = [locks EXCEPT !.parent_senders = 0]
        /\ IF aggregator.poisoned
           THEN /\ threads' = ThreadAt(t, "idle", "none")
                /\ UNCHANGED aggregator
           ELSE /\ aggregator' = [aggregator EXCEPT
                                    !.unclaimed_receivers = @ \cup {threads[t].type}]
                /\ threads' = ThreadAt(t, "send", threads[t].type)
        /\ UNCHANGED <<channels, buslog, hldefs, bufVars, appVars, pipeVars>>

\* send: the event goes into the channel of the sender get_sender returned.
SendEvent ==
    \E t \in Threads :
        LET type == threads[t].type
            value == Len(buslog.sent[type]) + 1
        IN  /\ threads[t].pc = "send"
            /\ threads' = ThreadAt(t, "idle", "none")
            /\ IF channels[type].closed
               THEN UNCHANGED <<channels, buslog>>
               ELSE /\ channels' = [channels EXCEPT
                                      ![type].queue = Append(@, Payload(type, value))]
                    /\ buslog' = [buslog EXCEPT
                                    !.sent[type] = Append(@, Payload(type, value))]
            /\ UNCHANGED <<aggregator, locks, hldefs, bufVars, appVars, pipeVars>>

\* register_event::<T> takes the write lock of unclaimed_receivers in the
\* scrutinee of its if-let.  A receiver found there is removed and returned;
\* otherwise the else block runs with the guard still alive.
ReLockReceivers ==
    \E t \in Threads, type \in PayloadTypes :
        /\ buslog.calls < MaxBusOps
        /\ threads[t].pc = "idle"
        /\ locks.unclaimed_receivers = 0
        /\ IF aggregator.poisoned
           THEN /\ buslog' = [buslog EXCEPT !.calls = @ + 1]
                /\ UNCHANGED <<aggregator, threads, locks>>
           ELSE IF type \in aggregator.unclaimed_receivers
           THEN /\ aggregator' = [aggregator EXCEPT !.unclaimed_receivers = @ \ {type}]
                /\ buslog' = [buslog EXCEPT !.calls = @ + 1, !.handed[type] = @ + 1]
                /\ UNCHANGED <<threads, locks>>
           ELSE /\ locks' = [locks EXCEPT !.unclaimed_receivers = t]
                /\ threads' = ThreadAt(t, "register_event_senders", type)
                /\ buslog' = [buslog EXCEPT !.calls = @ + 1]
                /\ UNCHANGED aggregator
        /\ UNCHANGED <<channels, hldefs, bufVars, appVars, pipeVars>>

\* The else block of register_event takes the write lock of parent_senders:
\* an occupied entry panics, a vacant one gets the new sender; either way
\* both guards are dropped.
ReLockSenders ==
    \E t \in Threads :
        LET type == threads[t].type
        IN  /\ threads[t].pc = "register_event_senders"
            /\ locks.parent_senders = 0
            /\ locks' = [locks EXCEPT !.unclaimed_receivers = 0]
            /\ threads' = ThreadAt(t, "idle", "none")
            /\ IF aggregator.poisoned \/ type \in aggregator.parent_senders
               THEN /\ aggregator' = [aggregator EXCEPT !.poisoned = TRUE]
                    /\ UNCHANGED buslog
               ELSE /\ aggregator' = [aggregator EXCEPT !.parent_senders = @ \cup {type}]
                    /\ buslog' = [buslog EXCEPT !.handed[type] = @ + 1]
            /\ UNCHANGED <<channels, hldefs, bufVars, appVars, pipeVars>>

NextLock ==
    \/ GsLockSenders
    \/ GsLockReceivers
    \/ SendEvent
    \/ ReLockReceivers
    \/ ReLockSenders

SpecLock == Init /\ [][NextLock]_vars

----------------------------------------------------------------------------
(* Properties of the TextBuf, checked under SpecBuf.                       *)

\* Column c (0-based) of row r (0-based) of a buffer.
CellAt(buf, r, c) == buf.cells[r + 1].boxed[c + 1]

Contiguous(line) ==
    \A i \in 1..(Len(line) - 1) : line[i].end_index = line[i + 1].start_index

StrictlyIncreasing(line) ==
    \A i \in 1..(Len(line) - 1) : line[i].start_index < line[i + 1].start_index

IsBlankCell(cell) == cell.text = " " /\ cell.hldef = None

ResizeChanged == op.name = "resize" /\ (op.a # pre.rows \/ op.b # pre.cols)

\* C1 as stated: after every set_cells call inside the bounds, the offsets
\* of the written row are contiguous and strictly increasing.
C1_Original ==
    op.name = "set_cells" =>
        LET line == tb.cells[op.a + 1].boxed
        IN  Contiguous(line) /\ StrictlyIncreasing(line)

\* C1 amended: after every set_cells call inside the bounds, the offsets of
\* the written row are contiguous (cells[i].end_index =
\* cells[i+1].start_index) and non-decreasing, and strictly increasing
\* across every cell whose text is not empty.
C1_ContiguousOffsets ==
    op.name = "set_cells" =>
        LET line == tb.cells[op.a + 1].boxed
        IN  /\ Contiguous(line)
            /\ \A i \in 1..(Len(line) - 1) :
                  /\ line[i].start_index <= line[i + 1].start_index
                  /\ line[i].text # "" =>
                        line[i].start_index < line[i + 1].start_index

\* C1 witness: a set_cells call left an empty-text cell in front of another
\* cell, so two neighbours start at the same offset.
C1_Witness ==
    /\ op.name = "set_cells"
    /\ \E i \in 1..(tb.cols - 1) :
          LET line == tb.cells[op.a + 1].boxed
          IN  line[i].text = "" /\ line[i].start_index = line[i + 1].start_index

\* C3: in every reachable buffer state every cell satisfies
\* end_index - start_index = byte length of its text.
C3_CellLength ==
    \A r \in 1..Len(tb.cells) : \A c \in 1..Len(tb.cells[r].boxed) :
        LET cell == tb.cells[r].boxed[c]
        IN  cell.end_index - cell.start_index = Len(cell.text)

\* C3 witness: a resize padded a row that holds cells of other byte
\* lengths than 1.
C3_Witness ==
    /\ ResizeChanged
    /\ tb.cols > pre.cols
    /\ \E r \in 1..tb.rows : \E c \in 1..tb.cols :
          Len(tb.cells[r].boxed[c].text) # 1

\* C4 as stated: after a resize that increases the column count, in every
\* kept row the first added cell starts at the last kept cell's end_index
\* and every further added cell starts where the previous one ends.
C4_PaddingContinues ==
    (ResizeChanged /\ op.b > pre.cols) =>
        \A r \in 1..Min(pre.rows, tb.rows) :
            LET line == tb.cells[r].boxed
            IN  \A c \in (pre.cols + 1)..tb.cols :
                    line[c].start_index = line[c - 1].end_index

\* C5: a resize with changed dimensions keeps text, highlight id and
\* double-width flag of every cell of the top-left min(old, new) rectangle,
\* makes every other cell a blank default cell, and leaves exactly rows
\* lines of cols cells.
C5_ResizeKeepsOverlap ==
    ResizeChanged =>
        /\ tb.rows = op.a /\ tb.cols = op.b
        /\ Len(tb.cells) = op.a
        /\ \A r \in 1..op.a : Len(tb.cells[r].boxed) = op.b
        /\ \A r \in 0..(op.a - 1) : \A c \in 0..(op.b - 1) :
              IF r < Min(pre.rows, op.a) /\ c < Min(pre.cols, op.b)
              THEN /\ CellAt(tb, r, c).text = CellAt(pre, r, c).text
                   /\ CellAt(tb, r, c).hldef = CellAt(pre, r, c).hldef
                   /\ CellAt(tb, r, c).double_width = CellAt(pre, r, c).double_width
              ELSE IsBlankCell(CellAt(tb, r, c))

\* C5 witness: a resize grew the buffer and kept a written cell.
C5_Witness ==
    /\ ResizeChanged
    /\ tb.rows * tb.cols > pre.rows * pre.cols
    /\ \E r \in 0..(Min(pre.rows, tb.rows) - 1) :
       \E c \in 0..(Min(pre.cols, tb.cols) - 1) :
          ~IsBlankCell(CellAt(tb, r, c))

\* C6: resize(r, c) on a buffer that already has r rows and c columns
\* changes nothing: contents, offsets, attributes and shaping caches.
C6_ResizeSameIsNoOp ==
    (op.name = "resize" /\ op.a = pre.rows /\ op.b = pre.cols) => tb = pre

\* C6 witness: a same-size resize of a buffer holding a shaping cache.
C6_Witness ==
    /\ op.name = "resize" /\ op.a = pre.rows /\ op.b = pre.cols
    /\ \E r \in 1..tb.rows : tb.cells[r].cache # None

\* C7: up(n) directly followed by down(n), 0 <= n <= rows, leaves the
\* original rows n..rows-1 in place and rows 0..n-1 blank; so a blank
\* buffer stays blank and written top rows are lost.
C7_UpDown ==
    scrolled.stage = "updown" =>
        /\ tb.cells = [i \in 1..tb.rows |->
                          IF i > scrolled.n THEN scrolled.base[i]
                          ELSE TextLineNew(tb.cols)]
        /\ scrolled.base = Make(tb.rows, tb.cols) =>
              tb.cells = Make(tb.rows, tb.cols)
        /\ (\E i \in 1..scrolled.n : scrolled.base[i] # TextLineNew(tb.cols)) =>
              tb.cells # scrolled.base

\* C7 witness: up(n) then down(n) with n >= 1 on a buffer whose top row was
\* written.
C7_Witness ==
    /\ scrolled.stage = "updown"
    /\ scrolled.n >= 1
    /\ scrolled.base[1] # TextLineNew(tb.cols)

----------------------------------------------------------------------------
(* Properties of the reducer.                                              *)

\* The events of the end-to-end scenario.
HelloScenario ==
    <<Event("Resize", [grid |-> 1, width |-> 80, height |-> 24]),
      Event("GridLine", [grid |-> 1, row |-> 0, column_start |-> 0,
                         cells |-> HelloRun]),
      Event("Flush", <<>>)>>

HelloLetters == <<"h", "e", "l", "l", "o">>

FloatApplied(event, aborted) == event.name = "WindowFloatPosition" /\ ~aborted

Easterly == {"NorthEast", "SouthEast"}

Southerly == {"SouthWest", "SouthEast"}

\* C8: WindowFloatPosition on existing grids sets the floating grid's origin
\* on each axis to anchor_grid.origin + max(0, offset), offset being
\* max(0, anchor coordinate) less the grid's own width (NorthEast,
\* SouthEast) or height (SouthWest, SouthEast); the origin is never left of
\* or above the anchor grid's; the grid becomes floating, focusable is
\* recorded, size and buffer stay, and no other grid changes.
C8_FloatPlacement ==
    [][FloatApplied(ev', panicked') =>
        LET a == ev'.args
            g == a.grid
            base == vgrids[a.anchor_grid].coord
            offc == Max(0, a.anchor_column)
                    - (IF a.anchor \in Easterly THEN vgrids[g].width ELSE 0)
            offr == Max(0, a.anchor_row)
                    - (IF a.anchor \in Southerly THEN vgrids[g].height ELSE 0)
        IN  /\ vgrids'[g].coord.col = base.col + Max(0, offc)
            /\ vgrids'[g].coord.row = base.row + Max(0, offr)
            /\ vgrids'[g].coord.col >= base.col
            /\ vgrids'[g].coord.row >= base.row
            /\ vgrids'[g].is_float
            /\ vgrids'[g].focusable = a.focusable
            /\ vgrids'[g].width = vgrids[g].width
            /\ vgrids'[g].height = vgrids[g].height
            /\ vgrids'[g].textbuf = vgrids[g].textbuf
            /\ DOMAIN vgrids' = DOMAIN vgrids
            /\ \A other \in DOMAIN vgrids \ {g} : vgrids'[other] = vgrids[other]
    ]_vars

\* C8 witness: a NorthEast float placed right of the origin of another
\* grid, which sits at (10, 5), and recorded as not focusable.
C8_Witness ==
    /\ FloatApplied(ev, panicked)
    /\ ev.args.anchor = "NorthEast"
    /\ ev.args.grid # ev.args.anchor_grid
    /\ vgrids[ev.args.anchor_grid].coord = Coord(10, 5)
    /\ vgrids[ev.args.grid].coord.col > 10
    /\ ~ev.args.focusable

\* The scenario of C9: anchor grid at (10, 5), anchor point (col 3, row 2),
\* SouthEast, floating grid of 4 columns and 2 rows.
C9_Scenario(event, aborted, grids) ==
    /\ FloatApplied(event, aborted)
    /\ event.args.anchor = "SouthEast"
    /\ event.args.anchor_column = 3 /\ event.args.anchor_row = 2
    /\ grids[event.args.anchor_grid].coord = Coord(10, 5)
    /\ grids[event.args.grid].width = 4
    /\ grids[event.args.grid].height = 2

\* C9 as stated: in that scenario the floating grid's origin becomes
\* (10+3-4, 5+2-2) = (9, 5).
C9_Original ==
    [][C9_Scenario(ev', panicked', vgrids) =>
          vgrids'[ev'.args.grid].coord = Coord(9, 5)]_vars

\* C9 amended: in that scenario the floating grid's origin becomes
\* (10 + max(0, 3-4), 5 + max(0, 2-2)) = (10, 5).
C9_ClampedOrigin ==
    [][C9_Scenario(ev', panicked', vgrids) =>
          vgrids'[ev'.args.grid].coord = Coord(10, 5)]_vars

\* C9 witness: the scenario has happened, the float anchored to another grid.
C9_Witness ==
    /\ C9_Scenario(ev, panicked, vgrids)
    /\ ev.args.grid # ev.args.anchor_grid
    /\ vgrids[ev.args.grid].coord = Coord(10, 5)

\* C10: MessageShow replaces the last entry when replace_last is set and the
\* queue is not empty (length unchanged) and appends otherwise (length + 1),
\* so on an empty queue replace_last makes no difference; the entries before
\* the last keep their order; MessageClear leaves the queue empty.
C10_MessageQueue ==
    /\ ev.name = "MessageShow" =>
          LET q == before
              entry == [kind |-> ev.args.kind, content |-> ev.args.content]
          IN  /\ messages[Len(messages)] = entry
              /\ IF ev.args.replace_last /\ q # <<>>
                 THEN /\ Len(messages) = Len(q)
                      /\ \A i \in 1..(Len(q) - 1) : messages[i] = q[i]
                 ELSE /\ Len(messages) = Len(q) + 1
                      /\ \A i \in 1..Len(q) : messages[i] = q[i]
              /\ q = <<>> => messages = <<entry>>
    /\ ev.name = "MessageClear" => messages = <<>>

\* C10 witness: a replace_last MessageShow on a queue of two entries.
C10_Witness ==
    /\ ev.name = "MessageShow"
    /\ ev.args.replace_last
    /\ Len(before) = 2
    /\ messages[2] # before[2]

----------------------------------------------------------------------------
(* Properties of the event bus, checked under SpecBus.                     *)

\* C11: a register_event for a payload type that has been registered before
\* panics, whether or not events of that type had been sent first; so at
\* most one receiver is ever handed out per payload type.
C11_SecondRegisterPanics ==
    /\ \A type \in PayloadTypes : buslog.handed[type] <= 1
    /\ (buslog.op.name = "register_event" /\ buslog.op.had >= 1) =>
          buslog.op.outcome = "panic"

\* C11 witness: the second register_event of a type panicked, after values
\* of that type had gone through the bus.
C11_Witness ==
    /\ buslog.op.name = "register_event"
    /\ buslog.op.had = 1
    /\ buslog.op.outcome = "panic"
    /\ buslog.received[buslog.op.type] # <<>>

\* C12: the first register_event of a payload type hands out a receiver
\* whatever was sent or registered for the other type (no fatal error
\* having occurred), and the values a type's receiver has received followed
\* by the values still queued for it are exactly the values sent with that
\* type, in order: none of another type, none of its own missing.
C12_TypesIndependent ==
    /\ (buslog.op.name = "register_event" /\ buslog.op.had = 0
            /\ buslog.op.clean) => buslog.op.outcome = "receiver"
    /\ \A type \in PayloadTypes :
          /\ buslog.received[type] \o channels[type].queue = buslog.sent[type]
          /\ \A i \in 1..Len(buslog.received[type]) :
                buslog.received[type][i].type = type

\* C12 witness: both payload types are registered and each receiver has
\* received a value while the other type had values in flight.
C12_Witness ==
    /\ \A type \in PayloadTypes :
          /\ buslog.handed[type] = 1
          /\ buslog.sent[type] # <<>>
    /\ \E type \in PayloadTypes : buslog.received[type] # <<>>

----------------------------------------------------------------------------
(* Properties of the pipeline, checked under SpecPipe.                     *)

\* The redraw events among the messages of the AppMessage channel, in order.
RECURSIVE RedrawEventsIn(_)
RedrawEventsIn(queue) ==
    IF queue = <<>> THEN <<>>
    ELSE (IF Head(queue).msg = "RedrawEvent" THEN <<Head(queue).event>>
          ELSE <<>>) \o RedrawEventsIn(Tail(queue))

\* The values queued in a channel of the bus, in order.
ValuesIn(queue) == [i \in 1..Len(queue) |-> queue[i].value]

IsPrefix(s, t) == Len(s) <= Len(t) /\ s = SubSeq(t, 1, Len(s))

\* C13: the events the reducer has applied, followed by those on their way
\* from the forwarding task, are a prefix of the events the producer sent,
\* in the order sent; while the session is running they are, together with
\* the events still buffered in the bus, exactly the events sent: none lost,
\* duplicated or reordered, those sent before register_event included.
C13_FifoDelivery ==
    LET sent == buslog.sent["RedrawEvent"]
        inflight == RedrawEventsIn(app_queue)
        pending == ValuesIn(channels["RedrawEvent"].queue)
    IN  /\ IsPrefix(trace \o inflight, sent)
        /\ running => trace \o inflight \o pending = sent

\* C13 witness: two different events that were sent before the forwarding
\* task registered have been applied by the reducer of a running session.
C13_Witness ==
    /\ running
    /\ ~panicked
    /\ forwarder.backlog >= 2
    /\ Len(trace) >= 2
    /\ trace[1] # trace[2]

\* C14 as stated: whenever the view reads the cursor and the registry, the
\* last message update applied is a Flush: the state it reads holds all
\* events up to a Flush marker and none after it.
C14_NoTornRead == shown.looked => shown.event = "Flush"

\* The forwarding task has sent Quit and left its loop.
QuitSent == forwarder.pc = "done"

\* Quit is the last message the forwarding task sends, and a reducer that
\* has stopped on Quit has applied, in order, every event forwarded ahead
\* of it and nothing else.
QuitIsLast ==
    /\ \A i \in 1..Len(app_queue) :
          app_queue[i] = QuitMsg => i = Len(app_queue)
    /\ QuitSent => (reducer = "stopped" \/ app_queue # <<>> \/ panicked)
    /\ reducer = "stopped" =>
          LET received == buslog.received["RedrawEvent"]
          IN  /\ QuitSent
              /\ app_queue = <<>>
              /\ trace = SubSeq(received, 1, Len(received) - 1)

\* C19 as stated: once the running flag is cleared the forwarding task
\* sends Quit (in a process that has not aborted); Quit is the last message
\* it sends; the reducer applies every event queued ahead of Quit in order,
\* stops on Quit and applies nothing after it.
C19_QuitOnShutdown ==
    /\ []QuitIsLast
    /\ [][reducer = "stopped" => (trace' = trace /\ vgrids' = vgrids)]_vars
    /\ (~running /\ ~panicked) ~> (QuitSent \/ panicked)

----------------------------------------------------------------------------
(* Properties of the session, checked under SpecLife.                      *)

\* The step applies a redraw event of the given name.
Applies(name) == nev' = nev + 1 /\ ev'.name = name

\* C15: applying a Flush event changes nothing: the grids with their
\* origins, sizes, flags and buffers, the highlight table, the cursor state
\* and the message queue are the same before and after it.
C15_FlushChangesNothing ==
    [][Applies("Flush") =>
          /\ vgrids' = vgrids
          /\ hldefs' = hldefs
          /\ cursor_grid' = cursor_grid
          /\ cursor_coord' = cursor_coord
          /\ cursor_cell' = cursor_cell
          /\ messages' = messages
          /\ ~panicked'
    ]_vars

\* C15 witness: a Flush was applied with the cursor on a written cell of an
\* existing grid.
C15_Witness ==
    /\ ev.name = "Flush"
    /\ ~panicked
    /\ HasGrid(vgrids, cursor_grid)
    /\ cursor_cell # None
    /\ cursor_cell[1].text = "zz"

\* C16 as stated: in every reachable state every cell's attribute list is
\* the list computed from the current highlight table, the cell's highlight
\* id and its offsets.
C16_NoStaleAttrs ==
    \A g \in DOMAIN vgrids :
        LET buf == vgrids[g].textbuf
        IN  \A r \in 1..Len(buf.cells) : \A c \in 1..Len(buf.cells[r].boxed) :
                buf.cells[r].boxed[c].attrs
                    = CellAttrs(buf.cells[r].boxed[c], hldefs)

\* C17 as stated: once grid 1 is in the registry it is in the registry in
\* every later state.
C17_DefaultGridStays ==
    [][HasGrid(vgrids, 1) => HasGrid(vgrids', 1)]_vars

\* The cursor's active grid is a grid the cursor was moved to and that has
\* been removed since.
CursorGridGone(grids, grid) == grid \in GridIds /\ ~HasGrid(grids, grid)

\* The step applies a CursorGoto that targets an existing grid.
Retargets == Applies("CursorGoto") /\ HasGrid(vgrids, ev'.args.grid)

\* The step applies an event that creates a grid with the cursor's grid id.
Recreates ==
    /\ \/ Applies("Resize")
       \/ Applies("WindowPosition")
       \/ Applies("WindowViewport")
       \/ Applies("MessageSetPosition")
    /\ ev'.args.grid = cursor_grid

\* The step removes the cursor's active grid.
RemovesCursorGrid ==
    /\ Applies("Destroy") \/ Applies("WindowClose")
    /\ ev'.args.grid = cursor_grid
    /\ HasGrid(vgrids, cursor_grid)

\* What C18 says of the removal and of the view: removing the cursor's
\* grid does not abort the reducer and leaves the cursor's grid id as it
\* was; a view that runs while the grid is gone finds no grid and does not
\* crash.
RemovalIsHandled ==
    /\ RemovesCursorGrid =>
          /\ ~panicked'
          /\ cursor_grid' = cursor_grid
          /\ ~HasGrid(vgrids', cursor_grid)
    /\ (CursorGridGone(vgrids, cursor_grid) /\ shown' # shown) =>
          /\ shown'.base = None
          /\ ~shown'.crashed
          /\ ~panicked'

\* C18 as stated: ... and from the removal until the next CursorGoto that
\* targets an existing grid, looking up the cursor's grid yields no grid.
C18_Original ==
    [][/\ RemovalIsHandled
       /\ (CursorGridGone(vgrids, cursor_grid) /\ ~Retargets) =>
             CursorGridGone(vgrids', cursor_grid')
    ]_vars

\* C18 amended: ... and from the removal until the next CursorGoto that
\* targets an existing grid, or the next Resize, WindowPosition,
\* WindowViewport or MessageSetPosition that creates a grid with that id
\* again, looking up the cursor's grid yields no grid.
C18_GoneUntilRetargetOrRecreate ==
    [][/\ RemovalIsHandled
       /\ (CursorGridGone(vgrids, cursor_grid) /\ ~Retargets /\ ~Recreates) =>
             CursorGridGone(vgrids', cursor_grid')
    ]_vars

\* C18 witness: the cursor's grid has been destroyed and the view, run
\* after that, looked the grid up and found none.
C18_Witness ==
    /\ CursorGridGone(vgrids, cursor_grid)
    /\ ev.name \in {"Destroy", "WindowClose"}
    /\ ev.args.grid = cursor_grid
    /\ shown.event = ev.name
    /\ shown.looked
    /\ shown.base = None
    /\ ~panicked

\* C20 as stated: no redraw event terminates the reducer loop.
C20_NeverAborts == ~panicked

----------------------------------------------------------------------------
(* Error handling of the reducer, checked under SpecLife and SpecCur.      *)

\* The model state the claims speak of is the same after the step.
ModelUnchanged ==
    /\ vgrids' = vgrids
    /\ hldefs' = hldefs
    /\ messages' = messages
    /\ cursor_grid' = cursor_grid
    /\ cursor_coord' = cursor_coord
    /\ cursor_cell' = cursor_cell
    /\ cursor' = cursor
    /\ <<cursor_modes, cursor_mode, mode>>' = <<cursor_modes, cursor_mode, mode>>

\* An outcome that reports an error: the reducer aborted, or a log record of
\* level warn or error was written.
Reported(log, aborted) ==
    aborted \/ \E i \in DOMAIN log : log[i] \in {"warn", "error"}

\* C21: Clear, WindowClose and Destroy naming a grid that is not in the
\* registry leave the model unchanged and have an error outcome, one that
\* differs from the outcome of the same event on an existing grid.
C21_UnknownGridReported ==
    [][(/\ (Applies("Clear") \/ Applies("WindowClose") \/ Applies("Destroy"))
        /\ ~HasGrid(vgrids, ev'.args.grid))
       => /\ ModelUnchanged
          /\ Reported(logged', panicked')
    ]_vars

\* C22: every Scroll event with a non-zero column delta aborts the reducer
\* and shifts no line of the grid, whatever its row delta.
C22_HorizontalScrollAborts ==
    [][(Applies("Scroll") /\ ev'.args.columns # 0)
       => (panicked' /\ vgrids' = vgrids)
    ]_vars

\* The step applies a Scroll with a non-zero column delta.
HorizontalScroll == Applies("Scroll") /\ ev'.args.columns # 0

\* C23 as stated: a Scroll with a non-zero column delta and an OptionSet
\* with an unknown option name each leave the model unchanged and do not
\* abort the reducer.
C23_Original ==
    [][(HorizontalScroll \/ Applies("OptionSetUnknown"))
       => (ModelUnchanged /\ ~panicked')
    ]_vars

\* C23 amended: an OptionSet with an unknown option name leaves the model
\* unchanged and the reducer goes on; a Scroll with a non-zero column delta
\* and a zero row delta on an existing grid is not ignored, it aborts the
\* reducer.
C23_UnknownOptionIgnored ==
    [][/\ Applies("OptionSetUnknown") => (ModelUnchanged /\ ~panicked')
       /\ (HorizontalScroll /\ ev'.args.rows = 0) => panicked'
    ]_vars

\* C23 witness: an unknown option was set on a session with a grid and a
\* message, and the reducer can take a further event.
C23_Witness ==
    /\ ev.name = "OptionSetUnknown"
    /\ ~panicked
    /\ HasGrid(vgrids, 1)
    /\ messages # <<>>
    /\ nev < MaxEvents

\* The registry, highlight table, cursor and message queue the step leaves
\* as they were, without a panic.
IgnoredStep == ModelUnchanged /\ ~panicked'

\* C24: a redraw event of a kind update has no handling for (the default
\* arm, MessageShowMode, MessageRuler) is ignored: registry, highlight
\* table, cursor state and message queue are unchanged, the reducer does
\* not panic, and it takes the next event.
C24_UnhandledIgnored ==
    [][(\/ \E kind \in UnhandledKinds : Applies(kind)
        \/ Applies("MessageShowMode")
        \/ Applies("MessageRuler"))
       => IgnoredStep
    ]_vars

\* C24 witness: an event of the default arm was applied to a session with a
\* grid, a message and a placed cursor.
C24_Witness ==
    /\ ev.name \in UnhandledKinds
    /\ ~panicked
    /\ messages # <<>>
    /\ cursor_cell # None

\* C25: ModeChange(mode, index) with index below the number of modes of the
\* last ModeInfoSet selects that mode for the cursor and records the editor
\* mode; with index out of range, also before any ModeInfoSet, the reducer
\* aborts.
C25_ModeChange ==
    [][Applies("ModeChange") =>
          LET index == ev'.args.mode_index
          IN  IF index < Len(cursor_modes)
              THEN /\ ~panicked'
                   /\ mode' = ev'.args.mode
                   /\ cursor_mode' = index
                   /\ cursor'.mode = Some(cursor_modes[index + 1])
                   /\ cursor_modes' = cursor_modes
              ELSE panicked'
    ]_vars

\* C25 witness: after a ModeInfoSet of two modes a ModeChange selected the
\* second one.
C25_Witness ==
    /\ ev.name = "ModeChange"
    /\ ~panicked
    /\ Len(cursor_modes) = 2
    /\ cursor_mode = 1
    /\ cursor.mode = Some(cursor_modes[2])

\* The step applies a CursorGoto to an existing grid.
GotoExisting == Applies("CursorGoto") /\ HasGrid(vgrids, ev'.args.grid)

\* The cell of the grid a CursorGoto names, at the row and column it names.
GotoCell(grids, args) == TextBufCell(grids[args.grid].textbuf, args.row, args.column)

\* C26: CursorGoto(grid, row, col) on an existing grid with no cell at (row,
\* col) still records the move: the cursor's grid becomes grid, its local
\* coordinate (col, row), the moved flag is raised, no cell snapshot is
\* taken, a warning is written and the reducer goes on.
C26_MoveRecordedWithoutCell ==
    [][(GotoExisting /\ GotoCell(vgrids, ev'.args) = None)
       => /\ cursor_grid' = ev'.args.grid
          /\ cursor_coord' = Coord(ev'.args.column, ev'.args.row)
          /\ cursor_coord_changed'
          /\ cursor_cell' = cursor_cell
          /\ "warn" \in {logged'[i] : i \in DOMAIN logged'}
          /\ ~panicked'
    ]_vars

\* C27: CursorGoto(grid, row, col) on an existing grid with a cell at (row,
\* col) sets the cursor's grid to grid, its local coordinate to (col, row),
\* its cell to a copy of that cell and its coordinate on the surface to the
\* grid's origin plus (col, row), and raises the moved flag; no grid is
\* modified.
C27_CursorGoto ==
    [][(GotoExisting /\ GotoCell(vgrids, ev'.args) # None)
       => LET a == ev'.args
              origin == vgrids[a.grid].coord
          IN  /\ cursor_grid' = a.grid
              /\ cursor_coord' = Coord(a.column, a.row)
              /\ cursor_cell' = GotoCell(vgrids, a)
              /\ cursor'.grid = a.grid
              /\ cursor'.coord = Coord(origin.col + a.column, origin.row + a.row)
              /\ cursor_coord_changed'
              /\ vgrids' = vgrids
              /\ ~panicked'
    ]_vars

\* C27 witness: the cursor went to a cell of a grid placed away from the
\* surface's origin.
C27_Witness ==
    /\ ev.name = "CursorGoto"
    /\ ~panicked
    /\ cursor_grid = 2
    /\ HasGrid(vgrids, 2)
    /\ vgrids[2].coord = Coord(10, 5)
    /\ cursor_coord = Coord(1, 0)
    /\ cursor.coord = Coord(11, 5)

----------------------------------------------------------------------------
(* Placement of grids, checked under SpecPlace.                            *)

\* Every grid but the named one is in the registry as it was, and no other
\* id came or went.
OthersUnchanged(grid) ==
    /\ (DOMAIN vgrids') \ {grid} = (DOMAIN vgrids) \ {grid}
    /\ \A other \in (DOMAIN vgrids) \ {grid} : vgrids'[other] = vgrids[other]

\* The grid and its buffer have the given size.
HasSize(vgrid, width, height) ==
    /\ vgrid.width = width
    /\ vgrid.height = height
    /\ vgrid.textbuf.cols = width
    /\ vgrid.textbuf.rows = height

\* C28: Resize(grid, cols, rows) with cols >= 1 and rows >= 1 creates the
\* grid at origin (0, 0) with that size if it is absent; otherwise it
\* resizes the grid's buffer in place and leaves origin, visibility and
\* floating flag as they were.  No other grid is modified.
C28_Resize ==
    [][(Applies("Resize") /\ ev'.args.width >= 1 /\ ev'.args.height >= 1)
       => LET a == ev'.args
          IN  /\ ~panicked'
              /\ HasGrid(vgrids', a.grid)
              /\ OthersUnchanged(a.grid)
              /\ HasSize(vgrids'[a.grid], a.width, a.height)
              /\ IF HasGrid(vgrids, a.grid)
                 THEN /\ vgrids'[a.grid].coord = vgrids[a.grid].coord
                      /\ vgrids'[a.grid].visible = vgrids[a.grid].visible
                      /\ vgrids'[a.grid].is_float = vgrids[a.grid].is_float
                 ELSE vgrids'[a.grid].coord = Coord(0, 0)
    ]_vars

\* C28 witness: a floating grid placed away from the surface's origin was
\* resized, with the other grid in the registry.
C28_Witness ==
    /\ ev.name = "Resize"
    /\ ~panicked
    /\ HasGrid(vgrids, 1)
    /\ HasGrid(vgrids, ev.args.grid)
    /\ vgrids[ev.args.grid].is_float
    /\ vgrids[ev.args.grid].coord # Coord(0, 0)
    /\ HasSize(vgrids[ev.args.grid], 3, 3)

\* C29: WindowPosition(grid, row, col, cols, rows), for every size with
\* cols >= 1 and rows >= 1, creates the grid at origin (col, row) with that
\* size if it is absent, and otherwise moves it to (col, row), resizes it
\* to (cols, rows) and marks it shown, also when it was hidden.
C29_WindowPosition ==
    [][(Applies("WindowPosition") /\ ev'.args.width >= 1 /\ ev'.args.height >= 1)
       => LET a == ev'.args
          IN  /\ ~panicked'
              /\ HasGrid(vgrids', a.grid)
              /\ vgrids'[a.grid].coord = Coord(a.column, a.row)
              /\ HasSize(vgrids'[a.grid], a.width, a.height)
              /\ vgrids'[a.grid].visible
    ]_vars

\* A grid as the WindowViewport arm makes it for an id it does not know.
IsPlaceholder(vgrid) ==
    /\ vgrid.coord = Coord(0, 0)
    /\ vgrid.width = 1
    /\ vgrid.viewport # None
    /\ vgrid.height = Max(vgrid.viewport[1][2] - vgrid.viewport[1][1], 1)

\* C30: WindowViewport for an id that is not in the registry does not
\* abort: it creates a placeholder grid with that id at origin (0, 0) with
\* the viewport recorded, and leaves every other grid as it was; a later
\* Resize or WindowPosition for that id updates the placeholder in place
\* instead of failing.
C30_ViewportPlaceholder ==
    [][/\ (Applies("WindowViewport") /\ ~HasGrid(vgrids, ev'.args.grid))
          => LET a == ev'.args
             IN  /\ ~panicked'
                 /\ HasGrid(vgrids', a.grid)
                 /\ IsPlaceholder(vgrids'[a.grid])
                 /\ vgrids'[a.grid].viewport = Some(<<a.top, a.bottom>>)
                 /\ OthersUnchanged(a.grid)
       /\ (/\ Applies("Resize") \/ Applies("WindowPosition")
           /\ HasGrid(vgrids, ev'.args.grid)
           /\ IsPlaceholder(vgrids[ev'.args.grid]))
          => LET a == ev'.args
             IN  /\ ~panicked'
                 /\ HasGrid(vgrids', a.grid)
                 /\ HasSize(vgrids'[a.grid], a.width, a.height)
                 /\ vgrids'[a.grid].viewport = vgrids[a.grid].viewport
    ]_vars

----------------------------------------------------------------------------
(* Properties of the event bus under threads, checked under SpecLock.      *)

\* Thread a holds the sender registry and waits for the unclaimed-receiver
\* registry, which thread b holds while waiting for the sender registry.
LockCycle(a, b) ==
    /\ threads[a].pc = "get_sender_receivers"
    /\ locks.parent_senders = a
    /\ threads[b].pc = "register_event_senders"
    /\ locks.unclaimed_receivers = b

\* C38: no interleaving of a send and a register_event on different threads
\* leaves one thread holding the sender-registry lock and waiting for the
\* unclaimed-receiver lock while the other holds the latter and waits for
\* the former.
C38_NoLockCycle == \A a \in Threads : \A b \in Threads \ {a} : ~LockCycle(a, b)

----------------------------------------------------------------------------
(* Properties of the grid lifecycle, checked under SpecLife.               *)

\* The cursor, the highlight table and the message queue are as they were.
AroundGridsUnchanged ==
    /\ UNCHANGED <<cursor_grid, cursor_coord, cursor_cell, cursor, modeVars>>
    /\ UNCHANGED <<hldefs, messages>>

\* Every cell of the buffer is blank and no line has a shaping cache.
IsBlankBuf(buf) ==
    \A r \in 1..Len(buf.cells) :
        /\ buf.cells[r].cache = None
        /\ \A c \in 1..Len(buf.cells[r].boxed) : IsBlankCell(buf.cells[r].boxed[c])

\* C31: WindowClose(grid) and Destroy(grid) have the same effect: the id is
\* absent afterwards and every other grid, the cursor, the highlight table
\* and the message queue are as before; a grid that any later event creates
\* under an absent id starts with a blank buffer.
C31_CloseIsDestroy ==
    [][/\ (Applies("WindowClose") \/ Applies("Destroy")) =>
             /\ ~HasGrid(vgrids', ev'.args.grid)
             /\ OthersUnchanged(ev'.args.grid)
             /\ AroundGridsUnchanged
             /\ ~panicked'
       /\ \A g \in GridIds :
             (~HasGrid(vgrids, g) /\ HasGrid(vgrids', g)) =>
                 IsBlankBuf(vgrids'[g].textbuf)
    ]_vars

\* A close or destroy has removed the default grid while a second grid,
\* created by the event before, stays.
C31_Witness ==
    /\ ev.name \in {"WindowClose", "Destroy"}
    /\ ev.args.grid = 1
    /\ ~HasGrid(vgrids, 1)
    /\ HasGrid(vgrids, 2)
    /\ nev = 2

\* The events after which a grid may be visible again.
PlacementEvents == {"WindowPosition", "MessageSetPosition"}

\* C36: WindowHide on an existing grid clears its visibility and nothing
\* else of the grid, and a hidden grid becomes visible only by a placement
\* event (WindowPosition, MessageSetPosition): WindowViewport, GridLine,
\* Scroll, Resize and the other events leave it hidden.
C36_HiddenUntilPlaced ==
    [][/\ (Applies("WindowHide") /\ HasGrid(vgrids, ev'.args.grid)) =>
             /\ vgrids' = [vgrids EXCEPT ![ev'.args.grid].visible = FALSE]
             /\ ~panicked'
       /\ \A g \in GridIds :
             (/\ HasGrid(vgrids, g) /\ ~vgrids[g].visible
              /\ HasGrid(vgrids', g) /\ vgrids'[g].visible)
                 => ev'.name \in PlacementEvents
    ]_vars

\* The cell now at the cursor's local coordinate in the cursor's grid.
CellUnderCursor ==
    IF HasGrid(vgrids', cursor_grid')
    THEN TextBufCell(vgrids'[cursor_grid'].textbuf, cursor_coord'.row, cursor_coord'.col)
    ELSE None

\* The snapshot is the cell under the cursor, when there is one.
SnapshotFresh == CellUnderCursor # None => cursor_cell' = CellUnderCursor

\* C40: after a CursorGoto that found its cell, after a GridLine that wrote
\* the cursor's row of the cursor's grid and after a Scroll of the cursor's
\* grid, the cursor's cell snapshot is a copy of the cell now at the
\* cursor's local coordinate, when there is such a cell; a GridLine or a
\* Scroll on another grid, and every other event but CursorGoto that names
\* another grid, leaves the snapshot as it was.
C40_SnapshotFollows ==
    [][/\ (/\ Applies("CursorGoto")
           /\ HasGrid(vgrids, ev'.args.grid)
           /\ TextBufCell(vgrids[ev'.args.grid].textbuf,
                          ev'.args.row, ev'.args.column) # None)
             => (cursor_cell' = CellUnderCursor /\ cursor_cell' # None)
       /\ (/\ Applies("GridLine") /\ ~panicked'
           /\ ev'.args.grid = cursor_grid
           /\ ev'.args.row = cursor_coord.row) => SnapshotFresh
       /\ (Applies("Scroll") /\ ~panicked' /\ ev'.args.grid = cursor_grid)
             => SnapshotFresh
       /\ (/\ nev' = nev + 1
           /\ ev'.name # "CursorGoto"
           /\ "grid" \in DOMAIN ev'.args
           /\ ev'.args.grid # cursor_grid) => cursor_cell' = cursor_cell
    ]_vars

\* A Scroll of the cursor's grid has brought written text under the cursor.
C40_Witness ==
    /\ ev.name = "Scroll"
    /\ ev.args.grid = cursor_grid
    /\ ~panicked
    /\ cursor_coord.row = 1
    /\ cursor_cell # None
    /\ cursor_cell[1].text = "zz"

----------------------------------------------------------------------------
(* Property of the session's shutdown, checked under SpecPipeFair.         *)

\* C39: under fair scheduling, once shutdown is signalled the reducer loop
\* eventually receives Quit and stops (in a process that has not aborted),
\* also when no further redraw event arrives.
C39_ShutdownStopsReducer ==
    (~running /\ ~panicked) ~> (reducer = "stopped" \/ panicked)

----------------------------------------------------------------------------
(* Further properties of the TextBuf, checked under SpecBuf.               *)

\* What a run puts into a cell.
Written(cell) ==
    [text |-> cell.text, hldef |-> cell.hldef, double_width |-> cell.double_width]

\* The runs cell by cell, each run as often as its repeat says.
RECURSIVE RunCells(_)
RunCells(runs) ==
    IF runs = <<>> THEN <<>>
    ELSE LET times == IF Head(runs).repeat = None THEN 1 ELSE Head(runs).repeat[1]
         IN  [k \in 1..times |-> Written(Head(runs))] \o RunCells(Tail(runs))

\* C34: set_cells inside the bounds expands each run into repeat cells (one
\* when the count is absent) with the run's text, highlight id and
\* double-width flag, the k-th expanded cell at column col_start + k; every
\* other cell of the row keeps its text, highlight id and flag, and every
\* other row is unchanged.
C34_SetCellsFrame ==
    (op.name = "set_cells" /\ op.a < pre.rows) =>
        LET written == RunCells(op.runs)
        IN  /\ tb.rows = pre.rows /\ tb.cols = pre.cols
            /\ \A r \in 0..(pre.rows - 1) :
                  r # op.a => tb.cells[r + 1] = pre.cells[r + 1]
            /\ Len(tb.cells[op.a + 1].boxed) = Len(pre.cells[op.a + 1].boxed)
            /\ \A c \in 0..(pre.cols - 1) :
                  Written(CellAt(tb, op.a, c)) =
                      IF c >= op.b /\ c < op.b + Len(written)
                      THEN written[c - op.b + 1]
                      ELSE Written(CellAt(pre, op.a, c))

\* A repeated run has been written into the second row of a buffer whose
\* first row holds text.
C34_Witness ==
    /\ op.name = "set_cells"
    /\ op.a = 1
    /\ op.runs[1].repeat = Some(2)
    /\ CellAt(tb, 0, 0).text = "zz"
    /\ CellAt(tb, 1, 1).text = "a"

\* A shaping cache describes the cells its line has now.
CacheCurrent(line) == line.cache # None => line.cache[1] = line.boxed

\* C35: a line's shaping cache is emptied by every mutation of the line's
\* cells: set_cells on that row, a resize that changes the dimensions,
\* clear and reset_cache leave it empty, so a cache that is not empty
\* describes the line's current cells and attributes.
C35_CacheInvalidated ==
    /\ (op.name = "set_cells" /\ op.a < pre.rows) => tb.cells[op.a + 1].cache = None
    /\ (ResizeChanged \/ op.name \in {"clear", "reset_cache"}) =>
          \A r \in 1..Len(tb.cells) : tb.cells[r].cache = None
    /\ \A r \in 1..Len(tb.cells) : CacheCurrent(tb.cells[r])

\* C37: the buffer has rows lines of cols cells each in every reachable
\* state, and set_cells, up, down, clear and reset_cache leave the row and
\* column counts as they were.
C37_Rectangular ==
    /\ Len(tb.cells) = tb.rows
    /\ \A r \in 1..Len(tb.cells) : Len(tb.cells[r].boxed) = tb.cols
    /\ op.name \in {"set_cells", "up", "down", "clear", "reset_cache"} =>
          (tb.rows = pre.rows /\ tb.cols = pre.cols)

\* A clear of a two-by-two buffer that a resize made from another size.
C37_Witness ==
    /\ op.name = "clear"
    /\ nops >= 2
    /\ tb.rows = 2
    /\ tb.cols = 2
    /\ pre.cells # tb.cells

----------------------------------------------------------------------------
(* Properties of the TextBuf at its edges, checked under SpecBufEdge.      *)

\* C32: set_cells with a row at or past the row count changes nothing:
\* every line with its cells, offsets, attributes and shaping cache is as
\* before, and the call returns.
C32_BeyondRowsNoOp ==
    (op.name = "set_cells" /\ op.a >= pre.rows) => tb = pre

\* set_cells past the last row of a buffer that holds written text and a
\* shaped line.
C32_Witness ==
    /\ op.name = "set_cells"
    /\ op.a >= pre.rows
    /\ \E r \in 1..Len(tb.cells) : tb.cells[r].cache # None
    /\ \E r \in 0..(tb.rows - 1), c \in 0..(tb.cols - 1) : CellAt(tb, r, c).text # " "

\* A line as make builds it: cols blank single-width cells, nothing shaped.
IsFreshLine(line, cols) ==
    /\ Len(line.boxed) = cols
    /\ line.cache = None
    /\ \A c \in 1..cols : IsBlankCell(line.boxed[c]) /\ ~line.boxed[c].double_width

\* Row i of new is row i + n of old, and the last n rows are fresh.
ShiftedUp(old, new, n) ==
    /\ new.rows = old.rows /\ new.cols = old.cols /\ Len(new.cells) = old.rows
    /\ \A i \in 0..(old.rows - 1) :
          IF i < old.rows - n THEN new.cells[i + 1] = old.cells[i + n + 1]
          ELSE IsFreshLine(new.cells[i + 1], old.cols)

\* Row i of new is row i - n of old, and the first n rows are fresh.
ShiftedDown(old, new, n) ==
    /\ new.rows = old.rows /\ new.cols = old.cols /\ Len(new.cells) = old.rows
    /\ \A i \in 0..(old.rows - 1) :
          IF i >= n THEN new.cells[i + 1] = old.cells[i - n + 1]
          ELSE IsFreshLine(new.cells[i + 1], old.cols)

\* C33: for 0 <= n <= rows, up(n) makes row i the former row i + n for
\* i < rows - n and the last n rows fresh blank lines; down(n) makes row i
\* the former row i - n for i >= n and the first n rows fresh blank lines;
\* the counts stay.  The Scroll arm shifts the whole grid up by rows for a
\* positive row delta and down by -rows for a negative one.
C33_Shifts ==
    /\ op.name = "up" => ShiftedUp(pre, tb, op.a)
    /\ op.name = "down" => ShiftedDown(pre, tb, op.a)
    /\ (op.name = "scroll" /\ op.a > 0) => ShiftedUp(pre, tb, op.a)
    /\ (op.name = "scroll" /\ op.a < 0) => ShiftedDown(pre, tb, -op.a)

\* A Scroll by one row down has moved written text from the first row to
\* the second.
C33_Witness ==
    /\ op.name = "scroll"
    /\ op.a = -1
    /\ tb.rows = 2
    /\ CellAt(pre, 0, 0).text # " "
    /\ CellAt(tb, 1, 0) = CellAt(pre, 0, 0)
    /\ CellAt(tb, 0, 0).text = " "
====
